---- MODULE Spec2Model ----
(***************************************************************************)
(* A model of mpv-anilist-updater (src/anilistUpdater/anilistUpdater.py):  *)
(* one process per watched file parses the path, consults the directory    *)
(* cache, resolves the catalog entry (absolute numbering included) and     *)
(* sends the save mutation the update engine decides on.                   *)
(*                                                                         *)
(* Python None is None (Optional[int]) or NoStatus (Optional[str]).  Time  *)
(* is counted in days, so CACHE_REFRESH_RATE (24 * 60 * 60 s) is 1.         *)
(* Titles shown to the user (anime_name, romaji) decide nothing and are    *)
(* left out of the records.                                                *)
(***************************************************************************)
EXTENDS Integers, Sequences, FiniteSets, TLC

VARIABLES
    media,      \* the remote catalog: the franchise's entries in search-rank order
    list,       \* the remote user list: id -> mediaListEntry (status, progress)
    cache,      \* cache.json: directory hash -> cache entry
    now,        \* time.time()
    options,    \* the configuration bundle handed over in argv[3]
    inv,        \* the running process: what this invocation did
    calls,      \* how many times the script has run
    edited      \* the user has changed the list outside this program

vars == <<media, list, cache, now, options, inv, calls, edited>>

-----------------------------------------------------------------------------
(* Bounds *)

MaxEpisode == 4
MaxTime == 2
MaxCalls == 2
MaxSeasons == 3
MaxCount == 2
MaxDepth == 3

-----------------------------------------------------------------------------
(* Values *)

None == 0 - 1
NoStatus == "NONE"

CACHE_REFRESH_RATE == 1
DefaultSeasonEpisodes == 12
MinDuration == 21
Infinity == 9999

Statuses == {"CURRENT", "PLANNING", "COMPLETED", "REPEATING", "PAUSED", "DROPPED"}
Actions == {"update", "launch"}
Names == {"A", "B"}
Dirs == {"d1"}
Ids == {1, 2}
Outcomes == {"ok", "fail", "raise"}
Modes == {"exact", "clamp"}

OptionNames ==
    {"SET_COMPLETED_TO_REWATCHING_ON_FIRST_EPISODE", "UPDATE_PROGRESS_WHEN_REWATCHING",
     "SET_TO_COMPLETED_AFTER_LAST_EPISODE_CURRENT",
     "SET_TO_COMPLETED_AFTER_LAST_EPISODE_REWATCHING", "ADD_ENTRY_IF_MISSING"}

AllOptions == [OptionNames -> BOOLEAN]

AnimeInfo(id, progress, total, file_progress, status) ==
    [anime_id |-> id, current_progress |-> progress, total_episodes |-> total,
     file_progress |-> file_progress, current_status |-> status]

NoInfo == AnimeInfo(None, None, None, None, NoStatus)

SeasonEpisodeInfo(id, progress, episodes, relative) ==
    [season_id |-> id, progress |-> progress, episodes |-> episodes,
     relative_episode |-> relative]

NoEntry == [status |-> NoStatus, progress |-> None]

-----------------------------------------------------------------------------
(* The remote catalog *)

Media(id, title, episodes, duration, format, status, year, season) ==
    [id |-> id, title |-> title, episodes |-> episodes, duration |-> duration,
     format |-> format, status |-> status, seasonYear |-> year, season |-> season]

\* Two cours of franchise "A"; the second one is either finished with two
\* episodes or still releasing with neither episode count nor duration.
Catalogs ==
    { << Media(1, "A", 2, 24, "TV", "FINISHED", 2020, "WINTER"),
         Media(2, "A", 2, 24, "TV", "FINISHED", 2020, "FALL") >>,
      << Media(1, "A", 2, 24, "TV", "FINISHED", 2020, "WINTER"),
         Media(2, "A", None, None, "TV", "RELEASING", 2021, "WINTER") >> }

EpisodesOf(id) ==
    LET found == SelectSeq(media, LAMBDA m : m.id = id)
    IN  IF found = <<>> THEN None ELSE found[1].episodes

\* SEARCH_ANIME: the entries whose title matches, each with the user's
\* mediaListEntry.  The service is not under the program's control: an
\* onList answer may still carry entries without a list entry, which the
\* code provides for (entry is None).
Search(name, onList, honoured) ==
    LET matching == SelectSeq(media, LAMBDA m : m.title = name)
        answer == [i \in 1..Len(matching) |->
                     [id |-> matching[i].id, episodes |-> matching[i].episodes,
                      duration |-> matching[i].duration, format |-> matching[i].format,
                      status |-> matching[i].status, seasonYear |-> matching[i].seasonYear,
                      season |-> matching[i].season,
                      mediaListEntry |-> list[matching[i].id]]]
    IN  IF onList /\ honoured
        THEN SelectSeq(answer, LAMBDA s : s.mediaListEntry.status # NoStatus)
        ELSE answer

\* SaveMediaListEntry: the entry the service stores and returns.  A status
\* change from COMPLETED to REPEATING resets progress to 0; a service in
\* mode "clamp" cuts progress to the entry's episode count.
ServerSave(l, v, mode) ==
    LET old    == l[v.mediaId]
        status == IF v.status # NoStatus THEN v.status
                  ELSE IF old.status # NoStatus THEN old.status ELSE "CURRENT"
        total  == EpisodesOf(v.mediaId)
        progress ==
            IF old.status = "COMPLETED" /\ status = "REPEATING" THEN 0
            ELSE IF mode = "clamp" /\ total # None /\ v.progress > total THEN total
            ELSE v.progress
    IN  [status |-> status, progress |-> progress]

-----------------------------------------------------------------------------
(* Season and episode handling *)

season_order(season) ==
    CASE season = "WINTER" -> 1
      [] season = "SPRING" -> 2
      [] season = "SUMMER" -> 3
      [] season = "FALL"   -> 4
      [] OTHER             -> 5

YearKey(s) == IF s.seasonYear = None \/ s.seasonYear = 0 THEN Infinity ELSE s.seasonYear

KeyLess(a, b) ==
    \/ YearKey(a) < YearKey(b)
    \/ YearKey(a) = YearKey(b) /\ season_order(a.season) < season_order(b.season)

\* sorted() is stable: x goes behind every element whose key is not larger.
RECURSIVE InsertSorted(_, _)
InsertSorted(s, x) ==
    IF s = <<>> THEN <<x>>
    ELSE IF KeyLess(x, Head(s)) THEN <<x>> \o s
    ELSE <<Head(s)>> \o InsertSorted(Tail(s), x)

RECURSIVE SortSeasons(_)
SortSeasons(s) ==
    IF s = <<>> THEN <<>>
    ELSE InsertSorted(SortSeasons(SubSeq(s, 1, Len(s) - 1)), s[Len(s)])

\* IsValidSeason letting a duration of 21 minutes through;
\* C26_FilterAndOrder holds of IsValidSeason and not of this.
IsValidSeasonFrom21(s) ==
    /\ \/ s.duration = None /\ s.status = "RELEASING"
       \/ s.duration # None /\ s.duration >= MinDuration
    /\ s.format = "TV"

IsValidSeason(s) ==
    /\ \/ s.duration = None /\ s.status = "RELEASING"
       \/ s.duration # None /\ s.duration > MinDuration
    /\ s.format = "TV"

filter_valid_seasons(seasons) == SortSeasons(SelectSeq(seasons, IsValidSeason))

\* SeasonEpisodes with one episode for a season of unknown length;
\* C27_FirstSeasonReaching holds of SeasonEpisodes and not of this.
SeasonEpisodesAtLeastOne(s) == IF s.episodes = None \/ s.episodes = 0 THEN 1 ELSE s.episodes

SeasonEpisodes(s) == IF s.episodes = None \/ s.episodes = 0 THEN DefaultSeasonEpisodes ELSE s.episodes

\* FindFrom stopping only past a season's last episode; C17_BoundaryStaysInSeason
\* holds of FindFrom and not of this.
RECURSIVE FindFromStrict(_, _, _)
FindFromStrict(seasons, absolute_episode, accumulated_episodes) ==
    IF seasons = <<>> THEN SeasonEpisodeInfo(None, None, None, None)
    ELSE LET season == Head(seasons)
         IN  IF accumulated_episodes + SeasonEpisodes(season) > absolute_episode
             THEN SeasonEpisodeInfo(season.id, season.mediaListEntry.progress,
                                    season.episodes, absolute_episode - accumulated_episodes)
             ELSE FindFromStrict(Tail(seasons), absolute_episode,
                                 accumulated_episodes + SeasonEpisodes(season))

\* FindFrom giving an episode beyond every season to the last one;
\* C18_ExhaustedCannotResolve holds of FindFrom and not of this.
RECURSIVE FindFromOrLast(_, _, _)
FindFromOrLast(seasons, absolute_episode, accumulated_episodes) ==
    IF seasons = <<>> THEN SeasonEpisodeInfo(None, None, None, None)
    ELSE LET season == Head(seasons)
         IN  IF accumulated_episodes + SeasonEpisodes(season) >= absolute_episode
             THEN SeasonEpisodeInfo(season.id, season.mediaListEntry.progress,
                                    season.episodes, absolute_episode - accumulated_episodes)
             ELSE IF Len(seasons) = 1
             THEN SeasonEpisodeInfo(season.id, season.mediaListEntry.progress,
                                    season.episodes, 1)
             ELSE FindFromOrLast(Tail(seasons), absolute_episode,
                                 accumulated_episodes + SeasonEpisodes(season))

RECURSIVE FindFrom(_, _, _)
FindFrom(seasons, absolute_episode, accumulated_episodes) ==
    IF seasons = <<>> THEN SeasonEpisodeInfo(None, None, None, None)
    ELSE LET season == Head(seasons)
         IN  IF accumulated_episodes + SeasonEpisodes(season) >= absolute_episode
             THEN SeasonEpisodeInfo(season.id, season.mediaListEntry.progress,
                                    season.episodes, absolute_episode - accumulated_episodes)
             ELSE FindFrom(Tail(seasons), absolute_episode,
                           accumulated_episodes + SeasonEpisodes(season))

find_season_and_episode(seasons, absolute_episode) == FindFrom(seasons, absolute_episode, 0)

-----------------------------------------------------------------------------
(* Anime info and progress *)

GResult(raised, info, searches, resolved, primaryTotal) ==
    [raised |-> raised, info |-> info, searches |-> searches, resolved |-> resolved,
     primaryTotal |-> primaryTotal]

FoundStatus(found) == IF found # <<>> THEN found[1].mediaListEntry.status ELSE NoStatus

\* Lines 740-753: the identity of the season the resolver found.
AbsoluteInfo(valid, season_episode_info) ==
    AnimeInfo(season_episode_info.season_id, season_episode_info.progress,
              season_episode_info.episodes, season_episode_info.relative_episode,
              FoundStatus(SelectSeq(valid,
                                    LAMBDA s : s.id = season_episode_info.season_id)))

ResolveAbsolute(valid, file_progress) ==
    AbsoluteInfo(valid, find_season_and_episode(valid, file_progress))

\* IsAbsolute without the test for a known episode count; C10_NullTotalAcceptsAny
\* holds of IsAbsolute and not of this.
IsAbsoluteUnchecked(first, file_progress) == file_progress > first.episodes

\* IsAbsolute from the last episode of the first result on;
\* C25_ResolverOnlyBeyondFirst holds of IsAbsolute and not of this.
IsAbsoluteFromLast(first, file_progress) ==
    first.episodes # None /\ file_progress >= first.episodes

\* Line 735: the file uses absolute numbering.
IsAbsolute(first, file_progress) ==
    first.episodes # None /\ file_progress > first.episodes

\* Lines 721-760: the first result, or the season the absolute number falls in.
ResolveSeasons(seasons, file_progress, searches) ==
    IF IsAbsolute(seasons[1], file_progress)
    THEN GResult("", ResolveAbsolute(filter_valid_seasons(seasons), file_progress),
                 searches, "absolute", seasons[1].episodes)
    ELSE GResult("", AnimeInfo(seasons[1].id, seasons[1].mediaListEntry.progress,
                               seasons[1].episodes, file_progress,
                               seasons[1].mediaListEntry.status),
                 searches, "primary", seasons[1].episodes)

\* SearchesAll for the view-only action alone; C20_SecondSearch holds of
\* SearchesAll and not of this.
SearchesAllOnLaunch(action) == action = "launch"

\* Whether an empty on-list answer is followed by a search of all anime.
SearchesAll(action) == action = "launch" \/ options["ADD_ENTRY_IF_MISSING"]

\* Lines 697-719: the search of all anime, answered with `second`.
SecondSearch(second, file_progress, action, net) ==
    IF net.s2 = "raise" THEN GResult("net_raise", NoInfo, <<TRUE, FALSE>>, "none", None)
    ELSE IF net.s2 = "fail" THEN GResult("", NoInfo, <<TRUE, FALSE>>, "none", None)
    ELSE IF second = <<>> THEN GResult("not_found", NoInfo, <<TRUE, FALSE>>, "none", None)
    ELSE IF action # "launch" /\ options["ADD_ENTRY_IF_MISSING"]
    THEN GResult("", AnimeInfo(second[1].id, None, second[1].episodes, file_progress,
                               NoStatus),
                 <<TRUE, FALSE>>, "add", second[1].episodes)
    ELSE ResolveSeasons(second, file_progress, <<TRUE, FALSE>>)

\* Lines 683-695: the on-list search, answered with `first`.
FirstSearch(first, name, file_progress, action, net) ==
    IF net.s1 = "raise" THEN GResult("net_raise", NoInfo, <<TRUE>>, "none", None)
    ELSE IF net.s1 = "fail" THEN GResult("", NoInfo, <<TRUE>>, "none", None)
    ELSE IF first # <<>> THEN ResolveSeasons(first, file_progress, <<TRUE>>)
    ELSE IF ~SearchesAll(action) THEN GResult("not_found", NoInfo, <<TRUE>>, "none", None)
    ELSE SecondSearch(Search(name, FALSE, net.honoured), file_progress, action, net)

\* net.s1, net.s2: how the first and the second search request end;
\* net.honoured: whether the on-list answer holds only entries on the list.
get_anime_info_and_progress(name, file_progress, action, net) ==
    FirstSearch(Search(name, TRUE, net.honoured), name, file_progress, action, net)

-----------------------------------------------------------------------------
(* The update engine *)

Mutation(mediaId, progress, status) ==
    [mediaId |-> mediaId, progress |-> progress, status |-> status]

Sent(l, v, ok, applied) ==
    [ok |-> ok,
     list |-> IF ok THEN [l EXCEPT ![v.mediaId] = applied] ELSE l,
     response |-> IF ok THEN applied ELSE NoEntry]

\* One save request: the list afterwards and the entry in the response.
Send(l, v, outcome, mode) == Sent(l, v, outcome = "ok", ServerSave(l, v, mode))

UResult(outcome, result, muts, priors, responses, l) ==
    [outcome |-> outcome, result |-> result, muts |-> muts, priors |-> priors,
     responses |-> responses, list |-> l]

Refused(outcome) == UResult(outcome, NoInfo, <<>>, <<>>, <<>>, list)

NotOnList(result) == result.current_progress = None /\ result.current_status = NoStatus

RestartApplies(result) ==
    /\ result.current_status = "COMPLETED"
    /\ result.file_progress = 1
    /\ options["SET_COMPLETED_TO_REWATCHING_ON_FIRST_EPISODE"]

\* IsNotNew letting an episode equal to the progress through; C2_NotNewGate holds
\* of IsNotNew and not of this.
IsNotNewStrict(result) ==
    /\ result.file_progress # None /\ result.file_progress # 0
    /\ result.current_progress # None /\ result.file_progress < result.current_progress

IsNotNew(result) ==
    /\ result.file_progress # None /\ result.file_progress # 0
    /\ result.current_progress # None /\ result.file_progress <= result.current_progress

\* BaseDecision treating every other status as CURRENT; C3_NotModifiable holds of
\* BaseDecision and not of this.
BaseDecisionLenient(result) ==
    IF result.current_status = "REPEATING" /\ options["UPDATE_PROGRESS_WHEN_REWATCHING"]
    THEN "REPEATING"
    ELSE IF IsNotNew(result) THEN "not_new" ELSE "CURRENT"

\* Lines 843-857: the status to set, or the refusal.
BaseDecision(result) ==
    IF result.current_status = "REPEATING" /\ options["UPDATE_PROGRESS_WHEN_REWATCHING"]
    THEN "REPEATING"
    ELSE IF result.current_status \in {"CURRENT", "PLANNING"}
    THEN IF IsNotNew(result) THEN "not_new" ELSE "CURRENT"
    ELSE "not_modifiable"

\* CompletionOverride without regard to the current status; C7_StatusSent holds of
\* CompletionOverride and not of this.
CompletionOverrideAnyStatus(result) ==
    /\ result.file_progress = result.total_episodes
    /\ \/ options["SET_TO_COMPLETED_AFTER_LAST_EPISODE_CURRENT"]
       \/ options["SET_TO_COMPLETED_AFTER_LAST_EPISODE_REWATCHING"]

\* Lines 859-864.
CompletionOverride(result) ==
    /\ result.file_progress = result.total_episodes
    /\ \/ /\ result.current_status = "CURRENT"
          /\ options["SET_TO_COMPLETED_AFTER_LAST_EPISODE_CURRENT"]
       \/ /\ result.current_status = "REPEATING"
          /\ options["SET_TO_COMPLETED_AFTER_LAST_EPISODE_REWATCHING"]

StatusToSet(result, decision) ==
    IF CompletionOverride(result) THEN "COMPLETED" ELSE decision

\* Lines 805-808: what the add reports once the request is answered.
AddOutcome(result, v, prior, sent) ==
    IF sent.ok
    THEN UResult("ok",
                 AnimeInfo(result.anime_id, result.file_progress, result.total_episodes,
                           result.file_progress, "CURRENT"),
                 <<v>>, <<prior>>, <<sent.response>>, sent.list)
    ELSE UResult("add_failed", NoInfo, <<v>>, <<prior>>, <<sent.response>>, sent.list)

\* The request add_anime_to_list sends with its default arguments (line 884);
\* C6_AddOrRefuse holds of AddMutation and not of this.
AddMutationDefaults(result) == Mutation(result.anime_id, 0, "PLANNING")

\* The request add_anime_to_list sends (lines 798-801, 899-902).
AddMutation(result) == Mutation(result.anime_id, result.file_progress, "CURRENT")

\* Lines 791-809 with add_anime_to_list, which catches a raising request.
AddToList(result, v, net) ==
    AddOutcome(result, v, list[v.mediaId].progress, Send(list, v, net.m1, net.mode))

\* Lines 830-841: the second request, and what is reported.
RestartStep2(result, net, v1, v2, prior1, sent1, prior2, sent2) ==
    IF net.m2 = "raise"
    THEN UResult("net_raise", NoInfo, <<v1, v2>>, <<prior1, prior2>>,
                 <<sent1.response, sent2.response>>, sent2.list)
    ELSE IF sent2.ok
    THEN UResult("ok",
                 AnimeInfo(result.anime_id, sent2.response.progress,
                           result.total_episodes, 1, "REPEATING"),
                 <<v1, v2>>, <<prior1, prior2>>,
                 <<sent1.response, sent2.response>>, sent2.list)
    ELSE UResult("update_failed", NoInfo, <<v1, v2>>, <<prior1, prior2>>,
                 <<sent1.response, sent2.response>>, sent2.list)

\* Lines 824-828: the first request.
RestartStep1(result, net, v1, v2, prior1, sent1) ==
    IF net.m1 = "raise"
    THEN UResult("net_raise", NoInfo, <<v1>>, <<prior1>>, <<sent1.response>>, sent1.list)
    ELSE RestartStep2(result, net, v1, v2, prior1, sent1,
                      sent1.list[v2.mediaId].progress,
                      Send(sent1.list, v2, net.m2, net.mode))

\* The two requests of the restart (lines 827 and 831).
RestartMutations(result) ==
    <<Mutation(result.anime_id, 0, "REPEATING"), Mutation(result.anime_id, 1, NoStatus)>>

\* The restart with its two requests in the other order; C4_RestartSequence holds of
\* Restart and not of this.
RestartSwapped(result, vs, net) ==
    RestartStep1(result, net, vs[2], vs[1], list[vs[2].mediaId].progress,
                 Send(list, vs[2], net.m1, net.mode))

\* Lines 811-841: COMPLETED to REPEATING in two requests.
Restart(result, vs, net) ==
    RestartStep1(result, net, vs[1], vs[2], list[vs[1].mediaId].progress,
                 Send(list, vs[1], net.m1, net.mode))

\* Lines 872-881: what the update reports once the request is answered.
PlainOutcome(result, net, v, prior, sent) ==
    IF net.m1 = "raise"
    THEN UResult("net_raise", NoInfo, <<v>>, <<prior>>, <<sent.response>>, sent.list)
    ELSE IF sent.ok
    THEN UResult("ok",
                 AnimeInfo(result.anime_id, sent.response.progress, result.total_episodes,
                           result.file_progress, sent.response.status),
                 <<v>>, <<prior>>, <<sent.response>>, sent.list)
    ELSE UResult("update_failed", NoInfo, <<v>>, <<prior>>, <<sent.response>>, sent.list)

PlainSend(result, net, v) ==
    PlainOutcome(result, net, v, list[v.mediaId].progress,
                 Send(list, v, net.m1, net.mode))

\* A plain update that sends its request before it refuses; C8_OneMutation holds
\* of PlainUpdate and not of this.
PlainUpdateEager(result, decision, net) ==
    IF decision \in {"not_new", "not_modifiable"}
    THEN [PlainSend(result, net, Mutation(result.anime_id, result.file_progress, "CURRENT"))
            EXCEPT !.outcome = decision]
    ELSE PlainSend(result, net,
                   Mutation(result.anime_id, result.file_progress,
                            StatusToSet(result, decision)))

\* Lines 843-881: the refusal, or the single save request of a plain update.
PlainUpdate(result, decision, net) ==
    IF decision \in {"not_new", "not_modifiable"} THEN Refused(decision)
    ELSE PlainSend(result, net,
                   Mutation(result.anime_id, result.file_progress,
                            StatusToSet(result, decision)))

\* An engine that takes no invocation for a view; C5_LaunchSendsNothing holds of
\* OnlyLaunch and not of this.
NeverOnlyLaunch(action) == FALSE

\* Whether this invocation only opens the page.
OnlyLaunch(action) == action = "launch"

update_episode_count(result, action, net) ==
    IF result.anime_id = None THEN Refused("no_id")
    ELSE IF OnlyLaunch(action) THEN UResult("launched", result, <<>>, <<>>, <<>>, list)
    ELSE IF NotOnList(result)
    THEN IF options["ADD_ENTRY_IF_MISSING"] THEN AddToList(result, AddMutation(result), net)
         ELSE Refused("not_on_list")
    ELSE IF RestartApplies(result) THEN Restart(result, RestartMutations(result), net)
    ELSE PlainUpdate(result, BaseDecision(result), net)

-----------------------------------------------------------------------------
(* Cache management *)

DigitChars == <<"0", "1", "2", "3", "4", "5", "6", "7", "8", "9">>

\* str(n) as the sequence of its characters; str(None) is the one token "None".
RECURSIVE PyStr(_)
PyStr(n) ==
    IF n = None THEN <<"None">>
    ELSE IF n < 10 THEN <<DigitChars[n + 1]>>
    ELSE PyStr(n \div 10) \o <<DigitChars[(n % 10) + 1]>>

IsNumber(s) == s # <<>> /\ \A i \in 1..Len(s) : \E d \in 1..10 : DigitChars[d] = s[i]

\* int(s) for a string of digits.
RECURSIVE PyInt(_)
PyInt(s) ==
    IF s = <<>> THEN 0
    ELSE PyInt(SubSeq(s, 1, Len(s) - 1)) * 10
         + ((CHOOSE d \in 1..10 : DigitChars[d] = s[Len(s)]) - 1)

\* The two numbers written the other way round; C38_ReadAfterWrite holds of
\* FormatRelativeProgress and not of this.
FormatRelativeProgressSwapped(absolute_progress, relative_progress) ==
    PyStr(relative_progress) \o <<"->">> \o PyStr(absolute_progress)

\* f"{absolute_progress}->{relative_progress}"
FormatRelativeProgress(absolute_progress, relative_progress) ==
    PyStr(absolute_progress) \o <<"->">> \o PyStr(relative_progress)

\* left, right = s.split("->"), then int(left) - int(right); ok is FALSE where
\* the code raises ValueError.
ParseOffset(s) ==
    LET arrows == {i \in 1..Len(s) : s[i] = "->"}
        at     == CHOOSE i \in arrows : TRUE
        left   == SubSeq(s, 1, at - 1)
        right  == SubSeq(s, at + 1, Len(s))
    IN  IF Cardinality(arrows) = 1 /\ IsNumber(left) /\ IsNumber(right)
        THEN [ok |-> TRUE, offset |-> PyInt(left) - PyInt(right)]
        ELSE [ok |-> FALSE, offset |-> 0]

EmptyCache == [d \in {} |-> None]

NoSearch(info) == GResult("", info, <<>>, "none", None)

NoFastPath == [ok |-> TRUE, episode |-> None, applies |-> FALSE]

\* A read that drops nothing; C12_ReadPurgesExpired holds of PurgeExpired and
\* not of this.
PurgeNothing(c) == c

\* Lines 281-287: every entry whose ttl has passed is dropped.
PurgeExpired(c) == [d \in {k \in DOMAIN c : ~(c[k].ttl < now)} |-> c[d]]

\* A lookup that trusts whatever is stored for the folder; C11_TrustedOnlyByName
\* holds of CacheHit and not of this.
CacheHitAnyName(c, dir, guessed_name) == dir \in DOMAIN c

\* Lines 289-295, on the purged cache.
CacheHit(c, dir, guessed_name) == dir \in DOMAIN c /\ c[dir].guessed_name = guessed_name

NoCacheEntry ==
    [guessed_name |-> "", anime_id |-> None, current_progress |-> None,
     relative_progress |-> <<>>, total_episodes |-> None, current_status |-> NoStatus,
     ttl |-> None]

\* An entry written without the refresh period; C13_WritesResult holds of
\* CacheEntry and not of this.
CacheEntryExpiringNow(guessed_name, absolute_progress, result) ==
    [guessed_name |-> guessed_name,
     anime_id |-> result.anime_id,
     current_progress |-> result.current_progress,
     relative_progress |-> FormatRelativeProgress(absolute_progress, result.file_progress),
     total_episodes |-> result.total_episodes,
     current_status |-> result.current_status,
     ttl |-> now]

\* Lines 240-248.
CacheEntry(guessed_name, absolute_progress, result) ==
    [guessed_name |-> guessed_name,
     anime_id |-> result.anime_id,
     current_progress |-> result.current_progress,
     relative_progress |-> FormatRelativeProgress(absolute_progress, result.file_progress),
     total_episodes |-> result.total_episodes,
     current_status |-> result.current_status,
     ttl |-> now + CACHE_REFRESH_RATE]

\* A write that keeps the entry of the folder alone; C35_WriteFrame holds of
\* cache_to_file and not of this.
cache_to_file_alone(c, dir, guessed_name, absolute_progress, result) ==
    [d \in {dir} |-> CacheEntry(guessed_name, absolute_progress, result)]

\* Lines 235-250: the entry of the folder is set in the loaded document.
cache_to_file(c, dir, guessed_name, absolute_progress, result) ==
    [d \in DOMAIN c \cup {dir} |->
        IF d = dir THEN CacheEntry(guessed_name, absolute_progress, result) ELSE c[d]]

-----------------------------------------------------------------------------
(* File processing *)

Idle ==
    [pc |-> "idle", action |-> "", name |-> "", episode |-> 0, dir |-> "",
     source |-> "", hit |-> FALSE, cachedTotal |-> None,
     stored |-> NoCacheEntry, purged |-> {},
     ident |-> NoInfo, resolved |-> "none", primaryTotal |-> None,
     searches |-> <<>>, muts |-> <<>>, priors |-> <<>>, responses |-> <<>>,
     outcome |-> "", result |-> NoInfo, wrote |-> FALSE]

Done(action, file_info, dir, source, g, u, wrote) ==
    [pc |-> "done", action |-> action, name |-> file_info.name,
     episode |-> file_info.episode, dir |-> dir,
     source |-> source,
     hit |-> source # "fresh",
     cachedTotal |-> IF source # "fresh" /\ dir \in DOMAIN PurgeExpired(cache)
                     THEN PurgeExpired(cache)[dir].total_episodes
                     ELSE None,
     stored |-> IF dir \in DOMAIN PurgeExpired(cache) THEN PurgeExpired(cache)[dir]
                ELSE NoCacheEntry,
     purged |-> DOMAIN cache \ DOMAIN PurgeExpired(cache),
     ident |-> g.info, resolved |-> g.resolved,
     primaryTotal |-> g.primaryTotal, searches |-> g.searches,
     muts |-> u.muts, priors |-> u.priors, responses |-> u.responses,
     outcome |-> u.outcome, result |-> u.result, wrote |-> wrote]

Run(c, l, i) == [cache |-> c, list |-> l, inv |-> i]

\* The derived episode accepted without the upper limit; C14_FastPathInRange
\* holds of RelativeEpisode and not of this.
RelativeEpisodeUnlimited(cache_entry, file_info, parsed) ==
    [ok |-> parsed.ok,
     episode |-> file_info.episode - parsed.offset,
     applies |-> parsed.ok /\ 1 <= file_info.episode - parsed.offset]

\* Lines 439-446: the episode derived through the recorded offset, and whether it
\* lies within the entry's episodes.
RelativeEpisode(cache_entry, file_info, parsed) ==
    [ok |-> parsed.ok,
     episode |-> file_info.episode - parsed.offset,
     applies |-> /\ parsed.ok
                 /\ 1 <= file_info.episode - parsed.offset
                 /\ file_info.episode - parsed.offset
                      <= (IF cache_entry.total_episodes = None THEN 0
                          ELSE cache_entry.total_episodes)]

FastPath(cache_entry, file_info) ==
    RelativeEpisode(cache_entry, file_info, ParseOffset(cache_entry.relative_progress))

\* Lines 447-455: the identity rebuilt from the cache entry.
CachedInfo(cache_entry, relative_episode) ==
    AnimeInfo(cache_entry.anime_id, cache_entry.current_progress,
              cache_entry.total_episodes, relative_episode, cache_entry.current_status)

\* Lines 436-460: the identity from the cache entry, or from a search.
IdentityFrom(hit, cache_entry, fast, file_info, action, net) ==
    IF hit /\ ~fast.ok THEN GResult("value_error", NoInfo, <<>>, "none", None)
    ELSE IF hit /\ fast.applies THEN NoSearch(CachedInfo(cache_entry, fast.episode))
    ELSE get_anime_info_and_progress(file_info.name, file_info.episode, action, net)

SourceOf(hit, fast) ==
    IF ~hit THEN "fresh"
    ELSE IF ~fast.ok THEN "cache"
    ELSE IF fast.applies THEN "fast" ELSE "bypass"

\* Line 464.
WritesCache(u) == u.outcome \in {"ok", "launched"} /\ u.result.current_progress # None

Finish(purged, dir, file_info, action, source, g, u, write) ==
    Run(IF write
        THEN cache_to_file(purged, dir, file_info.name, file_info.episode, u.result)
        ELSE purged,
        u.list, Done(action, file_info, dir, source, g, u, write))

\* Updated deleting the folder's entry when the update is refused;
\* C21_RefusalIsTerminal holds of Updated and not of this.
UpdatedDroppingEntry(purged, dir, file_info, action, source, g, u) ==
    IF u.outcome \in {"not_on_list", "not_modifiable", "not_new"}
    THEN Run([d \in DOMAIN purged \ {dir} |-> purged[d]], u.list,
             Done(action, file_info, dir, source, g, u, FALSE))
    ELSE Finish(purged, dir, file_info, action, source, g, u, WritesCache(u))

Updated(purged, dir, file_info, action, source, g, u) ==
    Finish(purged, dir, file_info, action, source, g, u, WritesCache(u))

\* Lines 462-467 after the identity g was obtained from `source`.
UpdateAndCache(purged, dir, file_info, action, net, source, g) ==
    IF g.raised # ""
    THEN Run(purged, list, Done(action, file_info, dir, source, g, Refused(g.raised), FALSE))
    ELSE Updated(purged, dir, file_info, action, source, g,
                 update_episode_count(g.info, action, net))

\* No launch answered from the cache; C37_CachedLaunchIsLocal holds of
\* CachedLaunch and not of this.
CachedLaunchNever(hit, cache_entry, action) == FALSE

\* Line 428: a launch with a cached id opens the page at once.
CachedLaunch(hit, cache_entry, action) ==
    action = "launch" /\ hit /\ cache_entry.anime_id # None /\ cache_entry.anime_id # 0

Resolve(purged, dir, file_info, action, net, hit, cache_entry, fast) ==
    UpdateAndCache(purged, dir, file_info, action, net, SourceOf(hit, fast),
                   IdentityFrom(hit, cache_entry, fast, file_info, action, net))

Handle(purged, dir, file_info, action, net, hit) ==
    IF hit /\ CachedLaunch(hit, purged[dir], action)
    THEN Run(purged, list,
             Done(action, file_info, dir, "cached_launch", NoSearch(NoInfo),
                  UResult("launched", NoInfo, <<>>, <<>>, <<>>, list), FALSE))
    ELSE Resolve(purged, dir, file_info, action, net, hit,
                 IF hit THEN purged[dir] ELSE NoCacheEntry,
                 IF hit THEN FastPath(purged[dir], file_info) ELSE NoFastPath)

Lookup(purged, dir, file_info, action, net) ==
    Handle(purged, dir, file_info, action, net, CacheHit(purged, dir, file_info.name))

\* file_info is what parse_filename returned, dir the hash of the file's folder.
handle_filename(dir, file_info, action, net) ==
    Lookup(PurgeExpired(cache), dir, file_info, action, net)

-----------------------------------------------------------------------------
(* Filename parsing *)

\* What guessit returns for a path component: the detected fields in the order
\* it lists them (keys) and their values.  A title is a sequence of text tokens,
\* episode and season the detected numbers (one for an int, several for a
\* list), episode_title a string of digits; <<>> and None stand for a field
\* that is not there.
Guess(keys, title, episode, season, part, year, episode_title) ==
    [keys |-> keys, title |-> title, episode |-> episode, season |-> season,
     part |-> part, year |-> year, episode_title |-> episode_title]

\* The guess of a folder: present is FALSE where the path has no such folder
\* or the guess is empty.
FolderGuess(present, title, season, part, year) ==
    [present |-> present, title |-> title, season |-> season, part |-> part, year |-> year]

FileInfo(raised, name, episode, year) ==
    [raised |-> raised, name |-> name, episode |-> episode, year |-> year]

HasKey(guess, key) == \E i \in 1..Len(guess.keys) : guess.keys[i] = key

\* list(guess.keys()).index(key), from 0.
KeyIndex(guess, key) == (CHOOSE i \in 1..Len(guess.keys) : guess.keys[i] = key) - 1

\* str(v) of an int, "" for a missing field.
StrOrEmpty(v) == IF v = None THEN <<>> ELSE PyStr(v)

\* str(v) of a season: an int, a list of ints ("[2, 3]"), or "".
RECURSIVE JoinNumbers(_, _)
JoinNumbers(numbers, separator) ==
    IF numbers = <<>> THEN <<>>
    ELSE IF Len(numbers) = 1 THEN PyStr(numbers[1])
    ELSE PyStr(numbers[1]) \o <<separator>> \o JoinNumbers(Tail(numbers), separator)

StrSeason(season) ==
    IF season = <<>> THEN <<>>
    ELSE IF Len(season) = 1 THEN PyStr(season[1])
    ELSE <<"[">> \o JoinNumbers(season, ", ") \o <<"]">>

\* DetectedEpisode without the season list as a source of the episode;
\* C32_EpisodeFallbackChain holds of DetectedEpisode and not of this.
DetectedEpisodeNoSeasonList(guess) ==
    IF HasKey(guess, "episode") THEN guess.episode[Len(guess.episode)]
    ELSE IF IsNumber(guess.episode_title) THEN PyInt(guess.episode_title)
    ELSE None

\* Lines 556-572: the episode before the default; a list gives its last number.
DetectedEpisode(guess) ==
    IF HasKey(guess, "episode") THEN guess.episode[Len(guess.episode)]
    ELSE IF IsNumber(guess.episode_title) THEN PyInt(guess.episode_title)
    ELSE IF Len(guess.season) > 1 THEN guess.season[Len(guess.season)]
    ELSE None

\* Remaining keeping the first number of the list only;
\* C31_LastOfListIsEpisode holds of Remaining and not of this.
RemainingFirstOnly(guess) ==
    IF HasKey(guess, "episode") /\ Len(guess.episode) > 1
    THEN <<guess.episode[1]>>
    ELSE <<>>

\* Lines 568-570: the other numbers of an episode list.
Remaining(guess) ==
    IF HasKey(guess, "episode") /\ Len(guess.episode) > 1
    THEN SubSeq(guess.episode, 1, Len(guess.episode) - 1)
    ELSE <<>>

\* Line 581: episode or 1.
EpisodeOrOne(episode) == IF episode = None \/ episode = 0 THEN 1 ELSE episode

\* Lines 573-583: the first season of a list, as a string.
FileSeason(guess) == IF guess.season = <<>> THEN <<>> ELSE PyStr(guess.season[1])

\* The title trusted wherever the guess has one; C29_TitleTrust holds of
\* title_in_filename and not of this.
title_in_filename_always(guess) == HasKey(guess, "title")

\* Lines 585-588.
title_in_filename(guess) ==
    /\ HasKey(guess, "title")
    /\ (IF HasKey(guess, "episode") THEN KeyIndex(guess, "episode") ELSE 1) > 0
    /\ LET season_index == IF HasKey(guess, "season") THEN KeyIndex(guess, "season")
                            ELSE 0 - 1
       IN  season_index > 0 \/ season_index = 0 - 1

\* What the parse holds while it goes through the folders.
Parsed(name, season, part, year, stop) ==
    [name |-> name, season |-> season, part |-> part, year |-> year, stop |-> stop]

\* Lines 599-613: one turn of the loop over the folders.
FolderTurn(p, folder_guess) ==
    IF p.stop \/ ~folder_guess.present THEN p
    ELSE Parsed(folder_guess.title,
                IF p.season # <<>> THEN p.season ELSE StrSeason(folder_guess.season),
                IF p.part # <<>> THEN p.part ELSE StrOrEmpty(folder_guess.part),
                IF p.year # <<>> THEN p.year ELSE StrOrEmpty(folder_guess.year),
                folder_guess.title = <<>>)

\* Lines 593-613: the title of the file, or the walk through the two folders.
NameSource(guess, folders, p) ==
    IF title_in_filename(guess)
    THEN Parsed(guess.title, p.season, p.part, p.year, TRUE)
    ELSE FolderTurn(FolderTurn(p, folders[1]), folders[2])

\* Lines 615-619: the other numbers of the episode list behind the name.
WithRemaining(name, remaining) ==
    IF remaining = <<>> THEN name ELSE name \o <<" ">> \o JoinNumbers(remaining, " ")

\* Compose with " Season n" behind the name for every detected season, season
\* 1 without a part too; C30_NameComposition holds of Compose and not of this.
ComposeEverySeason(p, remaining, episode) ==
    IF p.season # <<>> /\ ~IsNumber(p.season)
    THEN FileInfo("value_error", <<>>, None, <<>>)
    ELSE FileInfo("",
                  WithRemaining(p.name, remaining)
                    \o (IF p.season # <<>> THEN <<" Season ">> \o p.season ELSE <<>>)
                    \o (IF p.part # <<>> THEN <<" Part ">> \o p.part ELSE <<>>),
                  episode, p.year)

\* Lines 621-626; int(season) raises on what is not a number.
Compose(p, remaining, episode) ==
    IF p.season # <<>> /\ ~IsNumber(p.season)
    THEN FileInfo("value_error", <<>>, None, <<>>)
    ELSE FileInfo("",
                  WithRemaining(p.name, remaining)
                    \o (IF p.season # <<>> /\ (PyInt(p.season) > 1 \/ p.part # <<>>)
                        THEN <<" Season ">> \o p.season ELSE <<>>)
                    \o (IF p.part # <<>> THEN <<" Part ">> \o p.part ELSE <<>>),
                  episode, p.year)

\* guess is guessit's answer for the file name, folders those for the parent
\* folder and the one above it.
parse_filename(guess, folders) ==
    Compose(NameSource(guess, folders,
                       Parsed(<<>>, FileSeason(guess), StrOrEmpty(guess.part),
                              StrOrEmpty(guess.year), FALSE)),
            Remaining(guess), EpisodeOrOne(DetectedEpisode(guess)))

-----------------------------------------------------------------------------
(* The processes *)

\* What parse_filename returns: a title and an episode, which is never None
\* (line 581).  "B" is in no catalog, so every episode of it fares alike.
FileInfos ==
    [name : {"A"}, episode : 1..MaxEpisode] \cup {[name |-> "B", episode |-> 1]}

\* How the requests of one run end (s1, s2: the searches; m1, m2: the saves),
\* whether the on-list answer is filtered, and how the service applies progress.
Nets == [s1 : Outcomes, s2 : Outcomes, m1 : Outcomes, m2 : Outcomes,
         honoured : BOOLEAN, mode : Modes]

ProbeNet(honoured) ==
    [s1 |-> "ok", s2 |-> "ok", m1 |-> "ok", m2 |-> "ok", honoured |-> honoured,
     mode |-> "exact"]

\* The nets that differ in a request this run sends: the outcome of a request
\* that is never sent (the run with every request answered, `probe`, shows
\* which are) or that follows a failed one is not enumerated.
NetsFor(h, ns, nm) ==
    { n \in [s1 : IF ns >= 1 THEN Outcomes ELSE {"ok"},
             s2 : IF ns >= 2 THEN Outcomes ELSE {"ok"},
             m1 : IF nm >= 1 THEN Outcomes ELSE {"ok"},
             m2 : IF nm >= 2 THEN Outcomes ELSE {"ok"},
             honoured : {h},
             mode : IF nm >= 1 THEN Modes ELSE {"exact"}] :
        /\ h \/ \E id \in Ids : list[id].status = NoStatus
        /\ h \/ ns >= 1
        /\ n.s1 # "ok" => n.s2 = "ok" /\ n.m1 = "ok" /\ n.m2 = "ok" /\ n.mode = "exact"
        /\ n.s2 # "ok" => n.m1 = "ok" /\ n.m2 = "ok" /\ n.mode = "exact"
        /\ n.m1 = "raise" => n.m2 = "ok" }

NetsOfProbe(h, probe) == NetsFor(h, Len(probe.searches), Len(probe.muts))

RelevantNets(dir, file_info, action) ==
    UNION { NetsOfProbe(h, handle_filename(dir, file_info, action, ProbeNet(h)).inv)
            : h \in BOOLEAN }

\* The configurations of the whole-system specification: the defaults of
\* main() and every capability enabled.
MainDefaults ==
    [o \in OptionNames |->
        o \in {"UPDATE_PROGRESS_WHEN_REWATCHING",
               "SET_TO_COMPLETED_AFTER_LAST_EPISODE_REWATCHING"}]

AllEnabled == [o \in OptionNames |-> TRUE]

Entry(status, progress) == [status |-> status, progress |-> progress]

\* The lists the whole-system specification starts from, and what the user
\* may set an entry to on the site.
InitLists ==
    { [i \in Ids |-> NoEntry],
      [i \in Ids |-> IF i = 1 THEN Entry("PLANNING", 0) ELSE NoEntry],
      [i \in Ids |-> IF i = 1 THEN NoEntry ELSE Entry("CURRENT", 1)],
      [i \in Ids |-> IF i = 1 THEN Entry("COMPLETED", 2) ELSE Entry("CURRENT", 1)] }

EditEntries == {Entry("CURRENT", 2), Entry("REPEATING", 1), Entry("PAUSED", 1)}

Init ==
    /\ media \in Catalogs
    /\ list \in InitLists
    /\ cache = EmptyCache
    /\ now = 0
    /\ options \in {MainDefaults, AllEnabled}
    /\ inv = Idle
    /\ calls = 0
    /\ edited = FALSE

\* One run of the script on a file of one of the folders dirs: main() builds the
\* updater and calls handle_filename.
HandleFilenameIn(dirs, file_infos) ==
    /\ inv.pc = "idle"
    /\ calls < MaxCalls
    /\ \E dir \in dirs, file_info \in file_infos, action \in Actions :
         \E net \in RelevantNets(dir, file_info, action) :
           LET run == handle_filename(dir, file_info, action, net)
           IN  /\ cache' = run.cache
               /\ list' = run.list
               /\ inv' = run.inv
    /\ calls' = calls + 1
    /\ UNCHANGED <<media, now, options, edited>>

HandleFilename == HandleFilenameIn(Dirs, FileInfos)

\* The process ends (main returns, or exits with the error).
Exit ==
    /\ inv.pc = "done"
    /\ inv' = Idle
    /\ UNCHANGED <<media, list, cache, now, options, calls, edited>>

\* The user sets an entry on the site, outside this program, between two runs.
UserEdit ==
    /\ inv.pc = "idle"
    /\ calls > 0
    /\ ~edited
    /\ \E id \in Ids, entry \in EditEntries : list' = [list EXCEPT ![id] = entry]
    /\ edited' = TRUE
    /\ UNCHANGED <<media, cache, now, options, inv, calls>>

\* Time passes; it shows only against the ttl of a cache entry.
Tick ==
    /\ inv.pc = "idle"
    /\ cache # EmptyCache
    /\ now < MaxTime
    /\ now' = now + 1
    /\ UNCHANGED <<media, list, cache, options, inv, calls, edited>>

Next == HandleFilename \/ Exit \/ UserEdit \/ Tick

Spec == Init /\ [][Next]_vars

\* The update engine alone: one run from any list entry under any configuration.
EngineEntries == {NoEntry} \cup [status : Statuses, progress : 0..2]

InitEngine ==
    /\ media \in Catalogs
    /\ list \in [Ids -> EngineEntries]
    /\ list[2] \in {NoEntry, Entry("CURRENT", 1)}
    /\ cache = EmptyCache
    /\ now = 0
    /\ options \in AllOptions
    /\ inv = Idle
    /\ calls = MaxCalls - 1
    /\ edited = FALSE

NextEngine == HandleFilename \/ Exit

SpecEngine == InitEngine /\ [][NextEngine]_vars

\* The cache alone: two titles on the list, files of both in two folders, and
\* time passing between the runs.
CacheDirs == {"d1", "d2"}

CacheFileInfos == [name : Names, episode : 1..MaxEpisode]

TwoTitles ==
    << Media(1, "A", 2, 24, "TV", "FINISHED", 2020, "WINTER"),
       Media(2, "B", 2, 24, "TV", "FINISHED", 2021, "WINTER") >>

InitCache ==
    /\ media = TwoTitles
    /\ list = [i \in Ids |-> Entry("CURRENT", 0)]
    /\ cache = EmptyCache
    /\ now = 0
    /\ options = MainDefaults
    /\ inv = Idle
    /\ calls = 0
    /\ edited = FALSE

HandleCachedFile == HandleFilenameIn(CacheDirs, CacheFileInfos)

NextCache == HandleCachedFile \/ Exit \/ Tick

SpecCache == InitCache /\ [][NextCache]_vars

\* The cache document failing: in a run it cannot be read (missing rights, not
\* JSON), or cannot be written.
StoreFaults == {"none", "read", "write"}

\* A read error taken for the last document; C22_StoreErrorsAreMisses holds of
\* load_cache and not of this.
load_cache_unguarded(fault) == cache

\* Lines 300-318: the document, or {} when opening or parsing it raises.
load_cache(fault) == IF fault = "read" THEN EmptyCache ELSE cache

\* Lines 320-333 with 286-287 and 250: the document after the run.  save_cache
\* swallows its error; a run that read {} saves only when it stores an entry.
save_cache(run, fault) ==
    IF fault = "write" \/ (fault = "read" /\ ~run.inv.wrote) THEN cache ELSE run.cache

\* The run's record with the fault it met.
WithFault(i, fault) ==
    [x \in DOMAIN i \cup {"fault"} |-> IF x = "fault" THEN fault ELSE i[x]]

\* handle_filename over the document as load_cache returns it.
handle_filename_stored(dir, file_info, action, net, fault) ==
    Lookup(PurgeExpired(load_cache(fault)), dir, file_info, action, net)

RelevantNetsStored(dir, file_info, action, fault) ==
    UNION { NetsOfProbe(h, handle_filename_stored(dir, file_info, action,
                                                  ProbeNet(h), fault).inv)
            : h \in BOOLEAN }

HandleFilenameStored ==
    /\ inv.pc = "idle"
    /\ calls < MaxCalls
    /\ \E dir \in Dirs, file_info \in FileInfos, action \in Actions,
          fault \in StoreFaults :
         \E net \in RelevantNetsStored(dir, file_info, action, fault) :
           LET run == handle_filename_stored(dir, file_info, action, net, fault)
           IN  /\ cache' = save_cache(run, fault)
               /\ list' = run.list
               /\ inv' = WithFault(run.inv, fault)
    /\ calls' = calls + 1
    /\ UNCHANGED <<media, now, options, edited>>

NextStore == HandleFilenameStored \/ Exit \/ Tick

SpecStore == InitCache /\ [][NextStore]_vars

\* The parser alone.  The file's guess lists title, season and episode in any
\* order, each there or not, behind a release group or not; the file's title
\* is "A", the parent folder's "B", the title of the folder above "C", so that
\* the name tells where its title came from.
GuessFields == {"release_group", "title", "season", "episode"}

GuessKeys ==
    { k \in UNION { [1..n -> GuessFields] : n \in 0..Cardinality(GuessFields) } :
        /\ \A i \in 1..Len(k) : \A j \in 1..Len(k) : k[i] = k[j] => i = j
        /\ \A i \in 1..Len(k) : k[i] = "release_group" => i = 1 }

FileGuessesOf(keys, parts, years) ==
    { g \in [keys : keys, title : {<<>>, <<"A">>},
             episode : {<<>>, <<0>>, <<2>>, <<1, 2>>, <<3, 1, 2>>, <<2, 0>>},
             season : {<<>>, <<1>>, <<2>>, <<2, 3>>},
             part : parts, year : years,
             episode_title : {<<>>, <<"0", "2">>}] :
        /\ HasKey(g, "title") <=> g.title # <<>>
        /\ HasKey(g, "episode") <=> g.episode # <<>>
        /\ HasKey(g, "season") <=> g.season # <<>>
        /\ g.episode_title # <<>> => ~HasKey(g, "episode") }

FileGuesses == FileGuessesOf(GuessKeys, {None, 1}, {None, 2020})

NoFolder == FolderGuess(FALSE, <<>>, <<>>, None, None)

FolderGuessesOf(title, seasons) ==
    {NoFolder} \cup
    { FolderGuess(TRUE, t, d[1], d[2], d[3]) :
        t \in {<<>>, title},
        d \in { <<<<>>, None, None>>, <<<<2>>, 2, 2021>> }
               \cup { <<season, None, None>> : season \in seasons }
               \cup { <<<<>>, 2, None>> } }

FolderGuesses ==
    { <<near, far>> : near \in FolderGuessesOf(<<"B">>, {<<2>>, <<2, 3>>}),
                      far \in FolderGuessesOf(<<"C">>, {<<2>>, <<2, 3>>}) }

InitParse ==
    /\ media = TwoTitles
    /\ list = [i \in Ids |-> Entry("CURRENT", 0)]
    /\ cache = EmptyCache
    /\ now = 0
    /\ options = MainDefaults
    /\ inv = Idle
    /\ calls = 0
    /\ edited = FALSE

\* Line 424: the file name and its folders are guessed and parsed.
ParseFilename ==
    /\ inv.pc = "idle"
    /\ \E guess \in FileGuesses, folders \in FolderGuesses :
         inv' = [pc |-> "parsed", guess |-> guess, folders |-> folders,
                 file_info |-> parse_filename(guess, folders)]
    /\ UNCHANGED <<media, list, cache, now, options, calls, edited>>

NextParse == ParseFilename

SpecParse == InitParse /\ [][NextParse]_vars

\* The whole run, from the path to the update: titles "A" (the file's) and "B"
\* (the parent folder's) are on the list; the file's guess has a title and an
\* episode or not, in either order, and no season.
TitledCatalog ==
    << Media(1, <<"A">>, 2, 24, "TV", "FINISHED", 2020, "WINTER"),
       Media(2, <<"B">>, 2, 24, "TV", "FINISHED", 2021, "WINTER") >>

PlainGuesses ==
    { g \in FileGuesses :
        /\ ~HasKey(g, "release_group") /\ ~HasKey(g, "season")
        /\ g.part = None /\ g.year = None /\ g.episode_title = <<>> }

PlainFolders ==
    { f \in FolderGuesses :
        \A i \in 1..2 : f[i].season = <<>> /\ f[i].part = None /\ f[i].year = None }

\* The run's record with the guesses it started from.
WithGuess(i, guess, folders) ==
    [x \in DOMAIN i \cup {"guess", "folders"} |->
        IF x = "guess" THEN guess ELSE IF x = "folders" THEN folders ELSE i[x]]

\* Lines 424-467 once the path is parsed; an exception of parse_filename ends
\* the run before the cache is read.
HandleParsed(dir, file_info, action, net) ==
    IF file_info.raised # ""
    THEN Run(cache, list,
             Done(action, [name |-> file_info.name, episode |-> 1], dir, "fresh",
                  GResult(file_info.raised, NoInfo, <<>>, "none", None),
                  Refused(file_info.raised), FALSE))
    ELSE handle_filename(dir, [name |-> file_info.name, episode |-> file_info.episode],
                         action, net)

HandlePath(dir, guess, folders, action, net) ==
    HandleParsed(dir, parse_filename(guess, folders), action, net)

RelevantNetsOfPath(dir, guess, folders, action) ==
    UNION { NetsOfProbe(h, HandlePath(dir, guess, folders, action, ProbeNet(h)).inv)
            : h \in BOOLEAN }

InitMain ==
    /\ media = TitledCatalog
    /\ list = [i \in Ids |-> Entry("CURRENT", 0)]
    /\ cache = EmptyCache
    /\ now = 0
    /\ options = MainDefaults
    /\ inv = Idle
    /\ calls = MaxCalls - 1
    /\ edited = FALSE

\* main(): one run of the script on a path.
Main ==
    /\ inv.pc = "idle"
    /\ calls < MaxCalls
    /\ \E dir \in Dirs, guess \in PlainGuesses, folders \in PlainFolders,
          action \in Actions :
         \E net \in RelevantNetsOfPath(dir, guess, folders, action) :
           LET run == HandlePath(dir, guess, folders, action, net)
           IN  /\ cache' = run.cache
               /\ list' = run.list
               /\ inv' = WithGuess(run.inv, guess, folders)
    /\ calls' = calls + 1
    /\ UNCHANGED <<media, now, options, edited>>

NextMain == Main \/ Exit

SpecMain == InitMain /\ [][NextMain]_vars

\* The filter alone: search answers of one to MaxSeasons candidates of two
\* episodes each.  A candidate is a TV series of 22 minutes or one without
\* duration that is releasing, dated in 2019 or 2020 or with no year or no
\* season; or it is a TV series of 21 minutes, a finished one without
\* duration, or a film, dated before all of those or not at all.
CandidateKinds ==
    { <<"TV", 22, "FINISHED">>, <<"TV", None, "RELEASING">> }

OtherKinds ==
    { <<"TV", 21, "FINISHED">>, <<"TV", None, "FINISHED">>, <<"MOVIE", 24, "RELEASING">> }

CandidateDates ==
    { <<2019, "FALL">>, <<2020, "WINTER">>, <<2020, "SUMMER">>, <<2020, NoStatus>>,
      <<None, "WINTER">> }

OtherDates == { <<2019, "WINTER">>, <<None, "WINTER">> }

Candidates == (CandidateKinds \X CandidateDates) \cup (OtherKinds \X OtherDates)

CandidateLists ==
    { [i \in 1..Len(c) |->
          Media(i, "A", 2, c[i][1][2], c[i][1][1], c[i][1][3], c[i][2][1], c[i][2][2])] :
        c \in UNION { [1..n -> Candidates] : n \in 1..MaxSeasons } }

InitFilter ==
    /\ media \in CandidateLists
    /\ list = [i \in 1..MaxSeasons |-> Entry("CURRENT", 0)]
    /\ cache = EmptyCache
    /\ now = 0
    /\ options = MainDefaults
    /\ inv = Idle
    /\ calls = 0
    /\ edited = FALSE

\* Lines 736-739: the search answer is filtered and sorted, and the resolver
\* walks the result for an absolute episode.
FilterValidSeasons ==
    /\ inv.pc = "idle"
    /\ inv' = [pc |-> "filtered",
               candidates |-> Search("A", TRUE, TRUE),
               seasons |-> filter_valid_seasons(Search("A", TRUE, TRUE)),
               found |-> [e \in 1..(2 * MaxSeasons + 1) |->
                            find_season_and_episode(
                                filter_valid_seasons(Search("A", TRUE, TRUE)), e)]]
    /\ UNCHANGED <<media, list, cache, now, options, calls, edited>>

NextFilter == FilterValidSeasons

SpecFilter == InitFilter /\ [][NextFilter]_vars

\* Two runs of the script at once.  Each is its own process with its own
\* self._cache: it reads and purges the document when it starts (line 424),
\* and saves its copy whole when its update has succeeded (lines 464-466).
\* The steps of the two interleave at these two accesses to the file.
Procs == {1, 2}

Proc(pc, dir, file_info, action, doc) ==
    [pc |-> pc, dir |-> dir, file_info |-> file_info, action |-> action, doc |-> doc]

IdleProc == Proc("idle", "", [name |-> "", episode |-> 0], "", EmptyCache)

Overlap(procs, written, overlapped) ==
    [pc |-> "running", procs |-> procs, written |-> written, overlapped |-> overlapped]

\* A process that starts from an empty document whatever the file holds;
\* C36_NoLossWithoutOverlap holds of LoadedDocument and not of this.
LoadedDocumentEmpty(c) == EmptyCache

\* Lines 279-287: self._cache, as loaded from the file and purged.
LoadedDocument(c) == PurgeExpired(c)

\* Line 250: the document is saved only where cache_to_file is reached.
SavedDocument(run, c) == IF run.inv.wrote THEN run.cache ELSE c

WrittenBy(run, dir, written) ==
    IF run.inv.wrote
    THEN [d \in DOMAIN written \cup {dir} |-> IF d = dir THEN run.cache[dir] ELSE written[d]]
    ELSE written

RelevantNetsOfDocument(doc, dir, file_info, action) ==
    UNION { NetsOfProbe(h, Lookup(doc, dir, file_info, action, ProbeNet(h)).inv)
            : h \in BOOLEAN }

OverlapFileInfos == [name : Names, episode : 1..2]

InitOverlap ==
    /\ media = TwoTitles
    /\ list = [i \in Ids |-> Entry("CURRENT", 0)]
    /\ cache = EmptyCache
    /\ now = 0
    /\ options = MainDefaults
    /\ inv = Overlap([p \in Procs |-> IdleProc], EmptyCache, FALSE)
    /\ calls = 0
    /\ edited = FALSE

\* Line 424-425: the run parses the name, loads the document, purges it and
\* saves it if an entry was dropped.  The runs overlap when another process
\* holds a document it has not saved yet.
BeginRun(p) ==
    /\ inv.procs[p].pc = "idle"
    /\ calls < MaxCalls
    /\ \E dir \in CacheDirs, file_info \in OverlapFileInfos :
         inv' = Overlap([inv.procs EXCEPT
                           ![p] = Proc("read", dir, file_info, "update",
                                       LoadedDocument(cache))],
                        inv.written,
                        inv.overlapped \/ \E q \in Procs \ {p} : inv.procs[q].pc = "read")
    /\ cache' = LoadedDocument(cache)
    /\ calls' = calls + 1
    /\ UNCHANGED <<media, list, now, options, edited>>

CompleteWith(p, run) ==
    /\ cache' = SavedDocument(run, cache)
    /\ list' = run.list
    /\ inv' = Overlap([inv.procs EXCEPT ![p].pc = "done"],
                      WrittenBy(run, inv.procs[p].dir, inv.written),
                      inv.overlapped)

\* Lines 427-467 on the document the process holds.
CompleteRun(p) ==
    /\ inv.procs[p].pc = "read"
    /\ \E net \in RelevantNetsOfDocument(inv.procs[p].doc, inv.procs[p].dir,
                                         inv.procs[p].file_info, inv.procs[p].action) :
         CompleteWith(p, Lookup(inv.procs[p].doc, inv.procs[p].dir,
                                inv.procs[p].file_info, inv.procs[p].action, net))
    /\ UNCHANGED <<media, now, options, calls, edited>>

\* The process ends.
ExitRun(p) ==
    /\ inv.procs[p].pc = "done"
    /\ inv' = Overlap([inv.procs EXCEPT ![p] = IdleProc], inv.written, inv.overlapped)
    /\ UNCHANGED <<media, list, cache, now, options, calls, edited>>

\* Time passes, at any point of the runs.
TickRunning ==
    /\ cache # EmptyCache
    /\ now < MaxTime
    /\ now' = now + 1
    /\ UNCHANGED <<media, list, cache, options, inv, calls, edited>>

NextOverlap ==
    \/ \E p \in Procs : BeginRun(p)
    \/ \E p \in Procs : CompleteRun(p)
    \/ \E p \in Procs : ExitRun(p)
    \/ TickRunning

SpecOverlap == InitOverlap /\ [][NextOverlap]_vars

\* The legacy implementation (src/anilistUpdater.py).  Its cache is lines
\* appended to the token file: the token line first, then one line a cached
\* result, "epoch;;hash;;name;;result".  `cache` holds the lines of the file.
\* The catalog of this specification has single-season titles and the files
\* episodes within them, so that every search resolves to its first result.
LegacyResult(anime_id, current_progress, total_episodes, file_progress) ==
    [anime_id |-> anime_id, current_progress |-> current_progress,
     total_episodes |-> total_episodes, file_progress |-> file_progress]

NoLegacyResult == LegacyResult(None, None, None, None)

Line(epoch, dir, guess, result) ==
    [token |-> FALSE, epoch |-> epoch, dir |-> dir, guess |-> guess, result |-> result]

TokenLine == [token |-> TRUE, epoch |-> None, dir |-> "", guess |-> "",
              result |-> NoLegacyResult]

\* Lines 95-101: a cache line is kept if it is younger than the refresh rate
\* and the first for its folder and name; any other line is kept as it is.
KeepsLine(valid_lines, line) ==
    \/ line.token
    \/ /\ now - line.epoch < CACHE_REFRESH_RATE
       /\ ~\E i \in 1..Len(valid_lines) :
             /\ ~valid_lines[i].token
             /\ valid_lines[i].dir = line.dir
             /\ valid_lines[i].guess = line.guess

ValidStep(valid_lines, line) ==
    IF KeepsLine(valid_lines, line) THEN Append(valid_lines, line) ELSE valid_lines

RECURSIVE ValidLines(_, _)
ValidLines(orig_lines, k) ==
    IF k = 0 THEN <<>> ELSE ValidStep(ValidLines(orig_lines, k - 1), orig_lines[k])

Matches(line, dir, guessed_name) ==
    ~line.token /\ line.dir = dir /\ line.guess = guessed_name

\* Lines 100-101: cached_result = (result, len(valid_lines) - 1).
CachedResult(valid_lines, dir, guessed_name) ==
    IF \E i \in 1..Len(valid_lines) : Matches(valid_lines[i], dir, guessed_name)
    THEN [found |-> TRUE,
          result |-> valid_lines[CHOOSE i \in 1..Len(valid_lines) :
                                    Matches(valid_lines[i], dir, guessed_name)].result,
          line_index |-> (CHOOSE i \in 1..Len(valid_lines) :
                             Matches(valid_lines[i], dir, guessed_name)) - 1]
    ELSE [found |-> FALSE, result |-> NoLegacyResult, line_index |-> None]

WithoutLine(lines, index) ==
    SubSeq(lines, 1, index) \o SubSeq(lines, index + 2, Len(lines))

\* Lines 113-130; io is how the access to the file ends.  With result None the
\* line becomes '', which writelines leaves out.
update_cache(lines, dir, guessed_name, result, index, io) ==
    IF io = "error" THEN lines
    ELSE IF 0 <= index /\ index < Len(lines)
    THEN IF result = NoLegacyResult THEN WithoutLine(lines, index)
         ELSE [lines EXCEPT ![index + 1] = Line(now, dir, guessed_name, result)]
    ELSE lines

\* Lines 70-76.
legacy_cache_to_file(lines, dir, guessed_name, result) ==
    Append(lines, Line(now, dir, guessed_name, result))

LegacyUpdate(kind, result, l) == [kind |-> kind, result |-> result, list |-> l]

\* Lines 414-457: the result, False, or an exception.
legacy_update_episode_count(result, action, m) ==
    IF action = "launch" THEN LegacyUpdate("result", result, list)
    ELSE IF result.current_progress = None THEN LegacyUpdate("not_on_list", NoLegacyResult, list)
    ELSE IF result.file_progress <= result.current_progress
    THEN LegacyUpdate("not_new", NoLegacyResult, list)
    ELSE IF m = "ok"
    THEN LegacyUpdate("result",
                      LegacyResult(result.anime_id, result.file_progress,
                                   result.total_episodes, result.file_progress),
                      [list EXCEPT ![result.anime_id] =
                          Entry(IF result.file_progress # result.total_episodes
                                THEN "CURRENT" ELSE list[result.anime_id].status,
                                result.file_progress)])
    ELSE LegacyUpdate("false", NoLegacyResult, list)

\* Lines 362-412, for a title whose first result answers for the file.
legacy_get_anime_info_and_progress(name, file_progress, s) ==
    IF s # "ok" THEN [raised |-> "value_error", result |-> NoLegacyResult]
    ELSE IF ~\E i \in 1..Len(media) : media[i].title = name
    THEN [raised |-> "not_found", result |-> NoLegacyResult]
    ELSE [raised |-> "",
          result |-> LegacyResult(
              media[CHOOSE i \in 1..Len(media) : media[i].title = name].id,
              list[media[CHOOSE i \in 1..Len(media) : media[i].title = name].id].progress,
              media[CHOOSE i \in 1..Len(media) : media[i].title = name].episodes,
              file_progress)]

LegacyRun(lines, l, next, outcome, branch) ==
    [lines |-> lines, list |-> l, next |-> next, outcome |-> outcome, branch |-> branch]

\* Lines 202-209: the result is cached, in place of the line found or as a
\* new line.
LegacyFresh(valid_lines, cached, dir, file_info, u, io) ==
    IF u.kind = "result"
    THEN LegacyRun(IF cached.found
                   THEN update_cache(valid_lines, dir, file_info.name, u.result,
                                     cached.line_index, io)
                   ELSE legacy_cache_to_file(valid_lines, dir, file_info.name, u.result),
                   u.list, "done", "ok", "fresh")
    ELSE LegacyRun(valid_lines, u.list, "done",
                   IF u.kind = "false" THEN "update_failed" ELSE u.kind, "fresh")

\* Lines 198-199.
LegacySearch(valid_lines, cached, dir, file_info, action, g, m, io) ==
    IF g.raised # ""
    THEN LegacyRun(valid_lines, list, "done", g.raised, "fresh")
    ELSE LegacyFresh(valid_lines, cached, dir, file_info,
                     legacy_update_episode_count(g.result, action, m), io)

\* Lines 212-229: the update from the cached result; when it returns False the
\* line is deleted and handle_filename calls itself.
LegacyCached(valid_lines, cached, dir, file_info, cached_result, u, io) ==
    IF u.kind = "result"
    THEN LegacyRun(IF cached_result # u.result
                   THEN update_cache(valid_lines, dir, file_info.name, u.result,
                                     cached.line_index, io)
                   ELSE valid_lines,
                   u.list, "done", "ok", "cached")
    ELSE IF u.kind = "false"
    THEN LegacyRun(update_cache(valid_lines, dir, file_info.name, NoLegacyResult,
                                cached.line_index, io),
                   u.list, "retry", "update_failed", "cached")
    ELSE LegacyRun(valid_lines, u.list, "done", u.kind, "cached")

WithEpisode(result, episode) ==
    LegacyResult(result.anime_id, result.current_progress, result.total_episodes, episode)

\* Line 197: no cached result, or an update of another episode than the next.
NotFromCache(cached, file_info, action) ==
    \/ ~cached.found
    \/ file_info.episode # cached.result.current_progress + 1 /\ action # "launch"

LegacyBranch(valid_lines, cached, dir, file_info, action, s, m, io) ==
    IF NotFromCache(cached, file_info, action)
    THEN LegacySearch(valid_lines, cached, dir, file_info, action,
                      legacy_get_anime_info_and_progress(file_info.name,
                                                         file_info.episode, s), m, io)
    ELSE LegacyCached(valid_lines, cached, dir, file_info,
                      WithEpisode(cached.result, file_info.episode),
                      legacy_update_episode_count(
                          WithEpisode(cached.result, file_info.episode), action, m), io)

LegacyLookup(valid_lines, dir, file_info, action, s, m, io) ==
    LegacyBranch(valid_lines, CachedResult(valid_lines, dir, file_info.name),
                 dir, file_info, action, s, m, io)

\* Lines 185-231, one call: s, m and io are how the search, the mutation and
\* the access of update_cache to the file end in it.
legacy_handle_filename(dir, file_info, action, s, m, io) ==
    LegacyLookup(ValidLines(cache, Len(cache)), dir, file_info, action, s, m, io)

LegacyCall(pc, depth, dir, file_info, action, outcome, branch, deleted) ==
    [pc |-> pc, depth |-> depth, dir |-> dir, name |-> file_info.name,
     episode |-> file_info.episode, action |-> action, outcome |-> outcome,
     branch |-> branch, deleted |-> deleted]

LegacyIdle == LegacyCall("idle", 0, "", [name |-> "", episode |-> 0], "", "", "", FALSE)

LegacyFileInfos == [name : Names, episode : 1..2]

LegacyOutcomes == {"ok", "fail"}

IoOutcomes == {"ok", "error"}

InitLegacy ==
    /\ media = TwoTitles
    /\ list \in {[i \in Ids |-> Entry("CURRENT", 0)], [i \in Ids |-> Entry("CURRENT", 1)]}
    /\ cache = <<TokenLine>>
    /\ now = 0
    /\ options = MainDefaults
    /\ inv = LegacyIdle
    /\ calls = 0
    /\ edited = FALSE

LegacyStep(depth, dir, file_info, action, run) ==
    /\ cache' = run.lines
    /\ list' = run.list
    /\ inv' = LegacyCall(IF run.next = "retry" THEN "retrying" ELSE "done", depth, dir,
                         file_info, action, run.outcome, run.branch,
                         /\ run.next = "retry"
                         /\ ~CachedResult(run.lines, dir, file_info.name).found)

\* main(): handle_filename on the file given to the script.
LegacyMain ==
    /\ inv.pc = "idle"
    /\ calls < MaxCalls
    /\ \E dir \in Dirs, file_info \in LegacyFileInfos, action \in Actions,
          s \in LegacyOutcomes, m \in LegacyOutcomes, io \in IoOutcomes :
         LegacyStep(0, dir, file_info, action,
                    legacy_handle_filename(dir, file_info, action, s, m, io))
    /\ calls' = calls + 1
    /\ UNCHANGED <<media, now, options, edited>>

\* Line 229: handle_filename calls itself on the same file.
LegacyRetry ==
    /\ inv.pc = "retrying"
    /\ inv.depth < MaxDepth
    /\ \E s \in LegacyOutcomes, m \in LegacyOutcomes, io \in IoOutcomes :
         LegacyStep(inv.depth + 1, inv.dir, [name |-> inv.name, episode |-> inv.episode],
                    inv.action,
                    legacy_handle_filename(inv.dir,
                                           [name |-> inv.name, episode |-> inv.episode],
                                           inv.action, s, m, io))
    /\ UNCHANGED <<media, now, options, calls, edited>>

\* The interpreter ends a recursion that deep with RecursionError, which
\* main() reports.
LegacyRecursionError ==
    /\ inv.pc = "retrying"
    /\ inv.depth = MaxDepth
    /\ inv' = [inv EXCEPT !.pc = "done", !.outcome = "recursion_error"]
    /\ UNCHANGED <<media, list, cache, now, options, calls, edited>>

LegacyExit ==
    /\ inv.pc = "done"
    /\ inv' = LegacyIdle
    /\ UNCHANGED <<media, list, cache, now, options, calls, edited>>

LegacyTick ==
    /\ inv.pc = "idle"
    /\ Len(cache) > 1
    /\ now < MaxTime
    /\ now' = now + 1
    /\ UNCHANGED <<media, list, cache, options, inv, calls, edited>>

NextLegacy ==
    LegacyMain \/ LegacyRetry \/ LegacyRecursionError \/ LegacyExit \/ LegacyTick

SpecLegacy == InitLegacy /\ [][NextLegacy]_vars

\* The search answer in every order: the two cours of franchise "A", both on
\* the list, with one to MaxCount episodes each or a count not yet known,
\* listed by the service oldest first or newest first.  The list is the
\* program's alone, so the answer to a search holds both cours in every run.
Cour(id, episodes) ==
    Media(id, "A", episodes, 24, "TV", "FINISHED", 2020, IF id = 1 THEN "WINTER" ELSE "FALL")

SeasonOrders ==
    { << Cour(a, ea), Cour(CHOOSE b \in Ids : b # a, eb) >> :
        a \in Ids, ea \in {None} \cup 1..MaxCount, eb \in {None} \cup 1..MaxCount }

SeasonFileInfos == [name : {"A"}, episode : 1..MaxEpisode]

InitOrders ==
    /\ media \in SeasonOrders
    /\ list = [i \in Ids |-> Entry("CURRENT", 0)]
    /\ cache = EmptyCache
    /\ now = 0
    /\ options = MainDefaults
    /\ inv = Idle
    /\ calls = 0
    /\ edited = FALSE

HandleSeasonFile == HandleFilenameIn(Dirs, SeasonFileInfos)

NextOrders == HandleSeasonFile \/ Exit

SpecOrders == InitOrders /\ [][NextOrders]_vars

\* The resolver alone: franchises of one to MaxSeasons seasons in release order,
\* each with a known, a zero or an unknown episode count, and an absolute
\* episode up to one past the most the seasons can hold.
SeasonCounts == {None, 0} \cup 1..MaxCount

SeasonLists ==
    { [i \in 1..Len(c) |-> Media(i, "A", c[i], 24, "TV", "FINISHED", 2019 + i, "WINTER")] :
        c \in UNION { [1..n -> SeasonCounts] : n \in 1..MaxSeasons } }

MaxAbsolute == MaxSeasons * DefaultSeasonEpisodes + 1

InitResolver ==
    /\ media \in SeasonLists
    /\ list = [i \in 1..MaxSeasons |-> Entry("CURRENT", 0)]
    /\ cache = EmptyCache
    /\ now = 0
    /\ options = MainDefaults
    /\ inv = Idle
    /\ calls = 0
    /\ edited = FALSE

\* Lines 737-739: the search answer is filtered and sorted, and the resolver is
\* applied to an absolute episode.
FindSeasonAndEpisode ==
    /\ inv.pc = "idle"
    /\ \E absolute_episode \in 1..MaxAbsolute :
         inv' = [pc |-> "resolved",
                 seasons |-> filter_valid_seasons(Search("A", TRUE, TRUE)),
                 absolute_episode |-> absolute_episode,
                 found |-> find_season_and_episode(
                               filter_valid_seasons(Search("A", TRUE, TRUE)),
                               absolute_episode)]
    /\ UNCHANGED <<media, list, cache, now, options, calls, edited>>

NextResolver == FindSeasonAndEpisode

SpecResolver == InitResolver /\ [][NextResolver]_vars

-----------------------------------------------------------------------------
(* What a finished run shows *)

Finished == inv.pc = "done"

\* update_episode_count ran with action 'update' on a title with an id.
Engaged == Finished /\ inv.action = "update" /\ inv.ident.anime_id # None

OnList(result) == ~(result.current_progress = None /\ result.current_status = NoStatus)

RestartCase ==
    /\ Engaged
    /\ inv.ident.current_status = "COMPLETED"
    /\ inv.ident.file_progress = 1
    /\ options["SET_COMPLETED_TO_REWATCHING_ON_FIRST_EPISODE"]

\* The run ended before any save request could be sent.
EndedBeforeMutation ==
    \/ inv.outcome \in {"not_found", "value_error", "no_id", "not_on_list", "not_new",
                        "not_modifiable"}
    \/ inv.outcome = "net_raise" /\ inv.ident = NoInfo

LastResponse == inv.responses[Len(inv.responses)]

-----------------------------------------------------------------------------
(* C1 *)

\* C1: every save mutation the system issues carries a progress greater than or
\* equal to the progress the remote entry had before that mutation (the first
\* half of the claim; the claim asserts it for every status that leads to a
\* mutation and for identities from a search and from the cache alike).
C1_NeverLowersProgress ==
    Finished =>
        \A i \in 1..Len(inv.muts) :
            inv.priors[i] = None \/ inv.muts[i].progress >= inv.priors[i]

-----------------------------------------------------------------------------
(* C2 *)

\* C2: with action 'update' and current status CURRENT or PLANNING, a candidate
\* episode <= current progress ends in the 'not new' error with no save
\* mutation; a candidate episode > current progress sends one mutation with that
\* episode and status CURRENT, or COMPLETED where the completion override applies.
C2_NotNewGate ==
    (Engaged /\ inv.ident.current_status \in {"CURRENT", "PLANNING"}) =>
        IF inv.ident.file_progress <= inv.ident.current_progress
        THEN inv.outcome = "not_new" /\ inv.muts = <<>>
        ELSE /\ Len(inv.muts) = 1
             /\ inv.muts[1].progress = inv.ident.file_progress
             /\ inv.muts[1].status =
                  IF /\ inv.ident.file_progress = inv.ident.total_episodes
                     /\ inv.ident.current_status = "CURRENT"
                     /\ options["SET_TO_COMPLETED_AFTER_LAST_EPISODE_CURRENT"]
                  THEN "COMPLETED" ELSE "CURRENT"

\* A CURRENT entry at progress 2 and a file of episode 1: refused as not new.
C2_Witness ==
    /\ Engaged
    /\ inv.ident.current_status = "CURRENT"
    /\ inv.ident.file_progress < inv.ident.current_progress
    /\ inv.outcome = "not_new"

-----------------------------------------------------------------------------
(* C3 *)

\* C3: with action 'update', an entry on the list whose status no enabled rule
\* handles (PAUSED, DROPPED, COMPLETED unless restart is enabled and the episode
\* is 1, REPEATING unless track-rewatch is enabled) ends in 'not in a modifiable
\* state' with no save mutation, whatever the episode and the progress.
C3_NotModifiable ==
    ( /\ Engaged
      /\ OnList(inv.ident)
      /\ \/ inv.ident.current_status \in {"PAUSED", "DROPPED"}
         \/ /\ inv.ident.current_status = "COMPLETED"
            /\ ~(/\ options["SET_COMPLETED_TO_REWATCHING_ON_FIRST_EPISODE"]
                 /\ inv.ident.file_progress = 1)
         \/ /\ inv.ident.current_status = "REPEATING"
            /\ ~options["UPDATE_PROGRESS_WHEN_REWATCHING"] )
    => inv.outcome = "not_modifiable" /\ inv.muts = <<>>

\* A COMPLETED entry, restart enabled, and a file that is not episode 1.
C3_Witness ==
    /\ Engaged
    /\ inv.ident.current_status = "COMPLETED"
    /\ options["SET_COMPLETED_TO_REWATCHING_ON_FIRST_EPISODE"]
    /\ inv.ident.file_progress = 2
    /\ inv.outcome = "not_modifiable"

-----------------------------------------------------------------------------
(* C4 *)

\* C4 as stated: a restart issues exactly the two mutations (REPEATING, 0) and
\* (REPEATING, 1), and reports status REPEATING with progress 1.
C4_TwoRepeatingMutations ==
    RestartCase =>
        /\ inv.muts = << Mutation(inv.ident.anime_id, 0, "REPEATING"),
                         Mutation(inv.ident.anime_id, 1, "REPEATING") >>
        /\ inv.result.current_status = "REPEATING"
        /\ inv.result.current_progress = 1

\* C4: a restart first sends (status REPEATING, progress 0), so no nonzero
\* progress precedes the status change; unless that request raises, it then
\* sends progress 1 with no status field, whether or not the first request was
\* answered with success; when the run succeeds it reports status REPEATING and
\* the progress of the second response.
C4_RestartSequence ==
    RestartCase =>
        /\ Len(inv.muts) \in {1, 2}
        /\ inv.muts[1] = Mutation(inv.ident.anime_id, 0, "REPEATING")
        /\ Len(inv.muts) = 1 => inv.outcome = "net_raise" /\ inv.responses[1] = NoEntry
        /\ Len(inv.muts) = 2 => inv.muts[2] = Mutation(inv.ident.anime_id, 1, NoStatus)
        /\ inv.outcome = "ok" =>
             /\ Len(inv.muts) = 2
             /\ inv.result.current_status = "REPEATING"
             /\ inv.result.current_progress = inv.responses[2].progress
             /\ inv.result.file_progress = 1

\* A restart whose two requests were both answered with success.
C4_Witness ==
    /\ RestartCase
    /\ inv.outcome = "ok"
    /\ Len(inv.muts) = 2
    /\ inv.responses[1].status = "REPEATING"
    /\ inv.responses[2].progress = 1

-----------------------------------------------------------------------------
(* C5 *)

\* C5: an invocation with action 'launch' sends no save mutation, whatever the
\* status, progress, episode and options, with or without a cache entry.
C5_LaunchSendsNothing ==
    (Finished /\ inv.action = "launch") => inv.muts = <<>>

\* A launch, resolved by a search, on an entry an update would have advanced.
C5_Witness ==
    /\ Finished
    /\ inv.action = "launch"
    /\ inv.source = "fresh"
    /\ inv.outcome = "launched"
    /\ inv.ident.current_status = "PLANNING"
    /\ inv.ident.file_progress > inv.ident.current_progress

-----------------------------------------------------------------------------
(* C6 *)

\* C6: with action 'update' and a resolved title without a list entry (progress
\* and status both null): with ADD_ENTRY_IF_MISSING exactly one save mutation is
\* sent, with status CURRENT and the candidate episode as progress; without it
\* the run ends in 'not on your list' and no mutation is sent.
C6_AddOrRefuse ==
    (Engaged /\ ~OnList(inv.ident)) =>
        IF options["ADD_ENTRY_IF_MISSING"]
        THEN inv.muts = << Mutation(inv.ident.anime_id, inv.ident.file_progress, "CURRENT") >>
        ELSE inv.outcome = "not_on_list" /\ inv.muts = <<>>

\* A title that was not on the list, added at the file's episode.
C6_Witness ==
    /\ Engaged
    /\ ~OnList(inv.ident)
    /\ options["ADD_ENTRY_IF_MISSING"]
    /\ inv.outcome = "ok"
    /\ inv.ident.file_progress > 1

-----------------------------------------------------------------------------
(* C7 *)

\* C7: the status a plain update sends is COMPLETED exactly when the episode is
\* the last one and the complete-on-last-episode option matching the current
\* status is enabled (CURRENT with ..._CURRENT, REPEATING with ..._REWATCHING);
\* otherwise it is CURRENT for CURRENT and PLANNING entries and REPEATING for
\* REPEATING entries.
C7_StatusSent ==
    ( /\ Engaged
      /\ OnList(inv.ident)
      /\ inv.ident.current_status \in {"CURRENT", "PLANNING", "REPEATING"}
      /\ inv.muts # <<>> )
    => /\ Len(inv.muts) = 1
       /\ inv.muts[1].status =
            IF /\ inv.ident.file_progress = inv.ident.total_episodes
               /\ \/ /\ inv.ident.current_status = "CURRENT"
                     /\ options["SET_TO_COMPLETED_AFTER_LAST_EPISODE_CURRENT"]
                  \/ /\ inv.ident.current_status = "REPEATING"
                     /\ options["SET_TO_COMPLETED_AFTER_LAST_EPISODE_REWATCHING"]
            THEN "COMPLETED"
            ELSE IF inv.ident.current_status = "REPEATING" THEN "REPEATING" ELSE "CURRENT"

\* A PLANNING entry at its last episode with both completion options enabled:
\* the status sent is CURRENT.
C7_Witness ==
    /\ Engaged
    /\ inv.ident.current_status = "PLANNING"
    /\ inv.ident.file_progress = inv.ident.total_episodes
    /\ options["SET_TO_COMPLETED_AFTER_LAST_EPISODE_CURRENT"]
    /\ options["SET_TO_COMPLETED_AFTER_LAST_EPISODE_REWATCHING"]
    /\ inv.muts # <<>>
    /\ inv.muts[1].status = "CURRENT"

-----------------------------------------------------------------------------
(* C8 *)

\* C8: an 'update' invocation that succeeds outside the restart path has sent
\* exactly one save mutation, carrying the candidate relative episode as
\* progress and the status that is then reported; one that ends in a refusal or
\* failure before the mutation step has sent none.
C8_OneMutation ==
    (Finished /\ inv.action = "update") =>
        /\ (inv.outcome = "ok" /\ ~RestartCase) =>
             /\ Len(inv.muts) = 1
             /\ inv.muts[1].progress = inv.ident.file_progress
             /\ inv.muts[1].status \in Statuses
             /\ inv.muts[1].status = inv.result.current_status
        /\ EndedBeforeMutation => inv.muts = <<>>

\* An update through the cached identity that sent its one mutation.
C8_Witness ==
    /\ Finished
    /\ inv.action = "update"
    /\ inv.source = "fast"
    /\ inv.outcome = "ok"
    /\ Len(inv.muts) = 1

-----------------------------------------------------------------------------
(* C9 *)

\* C9: after every successful update (plain, add-to-list, restart) the progress
\* and status update_episode_count returns, and handle_filename writes to the
\* cache entry, are those the service returned for the save mutation.
C9_ReportsServerValues ==
    (Finished /\ inv.action = "update" /\ inv.outcome = "ok") =>
        /\ inv.result.current_progress = LastResponse.progress
        /\ inv.result.current_status = LastResponse.status
        /\ inv.wrote =>
             /\ cache[inv.dir].current_progress = LastResponse.progress
             /\ cache[inv.dir].current_status = LastResponse.status

-----------------------------------------------------------------------------
(* C10 *)

\* C10: when the primary entry's total_episodes is null, the absolute-episode
\* resolver is not invoked and the identity keeps the raw file episode; no
\* mutation carries COMPLETED; on a CURRENT or PLANNING entry every episode
\* greater than the progress is sent as it is.  A cache entry with null
\* total_episodes never answers for an update: the search decides as above.
C10_NullTotalAcceptsAny ==
    (Finished /\ inv.action = "update") =>
        /\ (inv.resolved # "none" /\ inv.primaryTotal = None) =>
             /\ inv.resolved # "absolute"
             /\ inv.ident.file_progress = inv.episode
             /\ inv.ident.total_episodes = None
             /\ \A i \in 1..Len(inv.muts) : inv.muts[i].status # "COMPLETED"
             /\ ( /\ inv.ident.current_status \in {"CURRENT", "PLANNING"}
                  /\ inv.episode > inv.ident.current_progress )
                => inv.muts = << Mutation(inv.ident.anime_id, inv.episode, "CURRENT") >>
        /\ (inv.hit /\ inv.cachedTotal = None /\ inv.source # "cache") =>
             inv.source = "bypass"

\* A second file of a title that is still airing: the cache entry holds a null
\* total, a search resolves the title again and the episode is sent as it is.
C10_Witness ==
    /\ Finished
    /\ inv.action = "update"
    /\ inv.source = "bypass"
    /\ inv.cachedTotal = None
    /\ inv.resolved = "primary"
    /\ inv.primaryTotal = None
    /\ inv.episode > 2
    /\ inv.outcome = "ok"

-----------------------------------------------------------------------------
(* C11 *)

\* The titles of the catalog entry with this id.
TitlesOf(id) == {media[i].title : i \in {j \in 1..Len(media) : media[j].id = id}}

\* C11: the entry stored for the file's folder is returned only if its
\* guessed_name is the guessed name of this run; with another name stored the
\* read is a miss, a search resolves the title, and the identity used for the
\* update is never that of the other title.
C11_TrustedOnlyByName ==
    Finished =>
        /\ inv.hit <=> (inv.stored # NoCacheEntry /\ inv.stored.guessed_name = inv.name)
        /\ (inv.stored # NoCacheEntry /\ inv.stored.guessed_name # inv.name) =>
             /\ inv.source = "fresh"
             /\ inv.ident.anime_id # None =>
                  /\ inv.searches # <<>>
                  /\ TitlesOf(inv.ident.anime_id) = {inv.name}

\* A file of "B" in a folder whose entry was stored for "A": "B" is searched
\* for and updated under its own id.
C11_Witness ==
    /\ Finished
    /\ inv.action = "update"
    /\ inv.name = "B"
    /\ inv.stored.guessed_name = "A"
    /\ inv.stored.anime_id = 1
    /\ inv.ident.anime_id = 2
    /\ inv.outcome = "ok"

-----------------------------------------------------------------------------
(* C12 *)

\* C12: every cache read drops the entries of every folder whose expiry time
\* has passed before it looks up the file's folder: an expired entry is never
\* returned, and after the run, hit or miss, the cache holds no expired entry
\* (a dropped folder is back only as the entry this run wrote).
C12_ReadPurgesExpired ==
    Finished =>
        /\ \A d \in DOMAIN cache : ~(cache[d].ttl < now)
        /\ inv.hit => ~(inv.stored.ttl < now)
        /\ \A d \in inv.purged : d \notin DOMAIN cache \/ (d = inv.dir /\ inv.wrote)

\* A read for a file in one folder that dropped the expired entry of the other.
C12_Witness ==
    /\ Finished
    /\ inv.purged # {}
    /\ inv.dir \notin inv.purged
    /\ \A d \in inv.purged : d \notin DOMAIN cache

-----------------------------------------------------------------------------
(* C13 *)

\* C13: after a run that ends with a result (a resolution for a view, or an
\* update) whose current_progress is not null, the cache holds for the file's
\* folder an entry with the run's guessed name, the result's id, progress,
\* total and status, and an expiry of the write time plus CACHE_REFRESH_RATE
\* (24 hours), in place of whatever was stored for that folder.
C13_WritesResult ==
    (Finished /\ inv.outcome \in {"ok", "launched"} /\ inv.result.current_progress # None) =>
        /\ inv.wrote
        /\ inv.dir \in DOMAIN cache
        /\ cache[inv.dir].guessed_name = inv.name
        /\ cache[inv.dir].anime_id = inv.result.anime_id
        /\ cache[inv.dir].current_progress = inv.result.current_progress
        /\ cache[inv.dir].total_episodes = inv.result.total_episodes
        /\ cache[inv.dir].current_status = inv.result.current_status
        /\ cache[inv.dir].ttl = now + CACHE_REFRESH_RATE

\* An update through an entry stored a day before: the entry is replaced by
\* one with the new progress and a fresh expiry.
C13_Witness ==
    /\ Finished
    /\ inv.action = "update"
    /\ inv.hit
    /\ inv.outcome = "ok"
    /\ inv.stored.ttl = now
    /\ inv.stored.current_progress < cache[inv.dir].current_progress
    /\ cache[inv.dir].ttl = now + CACHE_REFRESH_RATE

-----------------------------------------------------------------------------
(* C14 *)

\* C14: on a trusted cache hit with action 'update' the entry records an
\* absolute episode a and a relative episode r, and the candidate is
\* file episode - (a - r).  If it lies in [1, total_episodes] no search request
\* is sent and the update runs on the cached id, progress and status with that
\* candidate; if not (a null total included), the cached identity is dropped
\* and one search-based resolution runs: the on-list search, and the relaxed
\* one only after it.
C14_FastPathInRange ==
    (Finished /\ inv.action = "update" /\ inv.hit) =>
        \E a \in 1..MaxEpisode, r \in 1..MaxEpisode :
            /\ inv.stored.relative_progress = FormatRelativeProgress(a, r)
            /\ IF /\ inv.stored.total_episodes # None
                  /\ 1 <= inv.episode - (a - r)
                  /\ inv.episode - (a - r) <= inv.stored.total_episodes
               THEN /\ inv.source = "fast"
                    /\ inv.searches = <<>>
                    /\ inv.ident = AnimeInfo(inv.stored.anime_id,
                                             inv.stored.current_progress,
                                             inv.stored.total_episodes,
                                             inv.episode - (a - r),
                                             inv.stored.current_status)
               ELSE /\ inv.source = "bypass"
                    /\ inv.searches \in {<<TRUE>>, <<TRUE, FALSE>>}

\* An entry stored for episode 1 of a two-episode season and a file of episode
\* 3: the entry is passed over and the search resolves the file.
C14_Witness ==
    /\ Finished
    /\ inv.action = "update"
    /\ inv.hit
    /\ inv.stored.total_episodes = 2
    /\ inv.stored.relative_progress = FormatRelativeProgress(1, 1)
    /\ inv.episode = 3
    /\ inv.source = "bypass"
    /\ inv.resolved = "absolute"
    /\ inv.searches = <<TRUE>>

-----------------------------------------------------------------------------
(* C15 *)

\* C15: when the update made with the identity taken from the cache fails, the
\* cache entry of the folder is deleted and the file is resolved once more from
\* scratch (search, then update) within the same run, so that after the failure
\* the entry the identity came from is no longer in the cache.
C15_RetriesFromScratch ==
    (Finished /\ inv.action = "update" /\ inv.source = "fast" /\ inv.outcome # "ok") =>
        /\ inv.searches # <<>>
        /\ inv.dir \in DOMAIN cache => cache[inv.dir] # inv.stored

-----------------------------------------------------------------------------
(* C16 *)

\* C16: with the search answer fixed, once a resolution has been cached, every
\* later file of the folder whose offset-derived episode lies within the cached
\* entry's episodes gets from the cache the same (id, relative episode) that
\* get_anime_info_and_progress gives for that file, in whatever order the
\* search lists the seasons.
C16_RoundTrip ==
    (Finished /\ inv.action = "update" /\ inv.source = "fast") =>
        /\ inv.ident.anime_id =
             get_anime_info_and_progress(inv.name, inv.episode, "update",
                                         ProbeNet(TRUE)).info.anime_id
        /\ inv.ident.file_progress =
             get_anime_info_and_progress(inv.name, inv.episode, "update",
                                         ProbeNet(TRUE)).info.file_progress

-----------------------------------------------------------------------------
(* C17 *)

\* The episodes a season counts for, and those of the first k seasons.
CountOf(season) ==
    IF season.episodes = None \/ season.episodes = 0 THEN 12 ELSE season.episodes

RECURSIVE CountThrough(_, _)
CountThrough(seasons, k) ==
    IF k = 0 THEN 0 ELSE CountThrough(seasons, k - 1) + CountOf(seasons[k])

\* C17: an absolute episode equal to the episodes of seasons 1..k together
\* resolves to season k, with relative episode the episode count of season k,
\* never to season k+1 with relative episode 0; whenever a season is
\* returned, the relative episode is at least 1.
C17_BoundaryStaysInSeason ==
    inv.pc = "resolved" =>
        /\ inv.found.season_id # None => inv.found.relative_episode >= 1
        /\ \A k \in 1..Len(inv.seasons) :
             inv.absolute_episode = CountThrough(inv.seasons, k) =>
                 /\ inv.found.season_id = inv.seasons[k].id
                 /\ inv.found.relative_episode = CountOf(inv.seasons[k])

\* The last episode of the second of three seasons, whose count is unknown.
C17_Witness ==
    /\ inv.pc = "resolved"
    /\ Len(inv.seasons) = 3
    /\ inv.seasons[1].episodes = 2
    /\ inv.seasons[2].episodes = None
    /\ inv.absolute_episode = 14
    /\ inv.found.season_id = 2
    /\ inv.found.relative_episode = 12

-----------------------------------------------------------------------------
(* C18 *)

\* The seasons the resolver sees where every season is on the list, and the
\* episodes they hold together.
SeasonsSeen == filter_valid_seasons(Search(inv.name, TRUE, TRUE))

EpisodesSeen == CountThrough(SeasonsSeen, Len(SeasonsSeen))

\* C18: an absolute episode beyond the episodes of all filtered seasons
\* (unknown counts taken as 12) resolves to nothing: the identity is all null,
\* the run fails for want of an id, no save mutation is sent and the cache is
\* not written; an episode the seasons hold is never refused this way.
C18_ExhaustedCannotResolve ==
    (Finished /\ inv.resolved = "absolute") =>
        /\ inv.ident.anime_id = None =>
             /\ inv.episode > EpisodesSeen
             /\ inv.ident = NoInfo
             /\ inv.outcome = "no_id"
             /\ inv.muts = <<>>
             /\ ~inv.wrote
             /\ cache = PurgeExpired(cache)
             /\ inv.dir \in DOMAIN cache => cache[inv.dir] = inv.stored
        /\ inv.ident.anime_id # None =>
             /\ inv.episode <= EpisodesSeen
             /\ inv.ident.file_progress >= 1

\* Two cours of one episode each and a file of episode 3.
C18_Witness ==
    /\ Finished
    /\ inv.action = "update"
    /\ inv.resolved = "absolute"
    /\ inv.episode = 3
    /\ EpisodesSeen = 2
    /\ inv.ident.anime_id = None
    /\ inv.outcome = "no_id"

-----------------------------------------------------------------------------
(* C19 *)

\* C19: a request answered with a non-success status, or not answered in time,
\* ends the run with a failure: it is the last request of the run, no save
\* mutation follows it, and the cache entry of the folder is not written.  A
\* failed search in particular leaves the run with no mutation at all.
C19_FailedRequestEndsRun ==
    Finished =>
        /\ \A i \in 1..Len(inv.responses) :
             inv.responses[i] = NoEntry =>
                 /\ i = Len(inv.muts)
                 /\ inv.outcome \notin {"ok", "launched"}
                 /\ ~inv.wrote
        /\ (inv.searches # <<>> /\ inv.resolved = "none"
               /\ inv.outcome \in {"no_id", "net_raise"}) =>
             /\ inv.muts = <<>>
             /\ ~inv.wrote

-----------------------------------------------------------------------------
(* C20 *)

\* C20 as stated: the search without the on-list restriction is sent at most
\* once and only when the action is 'launch'; with action 'update' a run that
\* finds nothing on the list ends not-found after exactly one search.
C20_RelaxedOnlyOnLaunch ==
    Finished =>
        /\ Len(inv.searches) <= 2
        /\ Len(inv.searches) = 2 => inv.action = "launch"
        /\ (inv.action = "update" /\ inv.outcome = "not_found") => Len(inv.searches) = 1

\* A run that sent a search: the step from idle to done.
SearchingRun == inv.pc = "idle" /\ inv'.pc = "done" /\ inv'.searches # <<>>

\* The relaxed search is allowed to this run.
MaySearchAll == inv'.action = "launch" \/ options["ADD_ENTRY_IF_MISSING"]

\* C20, amended: the on-list search is sent first and the search without the
\* restriction at most once after it, only when the list holds no entry of the
\* title and the action is 'launch' or ADD_ENTRY_IF_MISSING is enabled.  When
\* the list holds no entry of the title and the relaxed search is allowed, one
\* search is all there is only if that request failed or its answer was not
\* restricted to the list.  A run ends not-found after one search exactly when
\* the relaxed search is not allowed, and after two when the catalog has no
\* such title.
C20_SecondSearch ==
    [][ SearchingRun =>
          /\ inv'.searches \in {<<TRUE>>, <<TRUE, FALSE>>}
          /\ inv'.searches = <<TRUE, FALSE>> =>
               /\ MaySearchAll
               /\ Search(inv'.name, TRUE, TRUE) = <<>>
          /\ (inv'.searches = <<TRUE>> /\ MaySearchAll
                 /\ Search(inv'.name, TRUE, TRUE) = <<>>) =>
               \/ inv'.outcome \in {"net_raise", "no_id"} /\ inv'.resolved = "none"
               \/ inv'.resolved \in {"primary", "absolute"}
          /\ inv'.outcome = "not_found" =>
               IF MaySearchAll
               THEN inv'.searches = <<TRUE, FALSE>> /\ Search(inv'.name, FALSE, TRUE) = <<>>
               ELSE inv'.searches = <<TRUE>>
          /\ (~MaySearchAll /\ Search(inv'.name, FALSE, TRUE) = <<>>) =>
               /\ inv'.searches = <<TRUE>>
               /\ inv'.outcome \in {"not_found", "net_raise", "no_id"} ]_vars

\* An update with ADD_ENTRY_IF_MISSING enabled of a title not on the list: the
\* second search finds it and it is added.
C20_Witness ==
    /\ Finished
    /\ inv.action = "update"
    /\ options["ADD_ENTRY_IF_MISSING"]
    /\ inv.searches = <<TRUE, FALSE>>
    /\ inv.resolved = "add"
    /\ inv.outcome = "ok"

-----------------------------------------------------------------------------
(* C21 *)

\* C21: a run the update engine refuses (not on the list, not modifiable, not
\* new) ends there: no save mutation is sent, no search follows the refusal
\* (none at all when the identity came from the cache), and the cache entry
\* of the file's folder is the one that was there when the run read it,
\* or still absent.
C21_RefusalIsTerminal ==
    (Finished /\ inv.outcome \in {"not_on_list", "not_modifiable", "not_new"}) =>
        /\ inv.muts = <<>>
        /\ ~inv.wrote
        /\ IF inv.source = "fast"
           THEN inv.searches = <<>>
           ELSE inv.searches \in {<<TRUE>>, <<TRUE, FALSE>>}
        /\ IF inv.stored = NoCacheEntry
           THEN inv.dir \notin DOMAIN cache
           ELSE inv.dir \in DOMAIN cache /\ cache[inv.dir] = inv.stored

\* An episode already watched, refused on the identity taken from the cache.
C21_Witness ==
    /\ Finished
    /\ inv.source = "fast"
    /\ inv.outcome = "not_new"
    /\ inv.searches = <<>>
    /\ cache[inv.dir] = inv.stored

-----------------------------------------------------------------------------
(* C22 *)

\* The run of the same file with nothing in the cache (a read error) or with
\* the document as it is (a write error), the requests ending as in net.
FaultlessRun(fault, dir, file_info, action, net) ==
    IF fault = "read"
    THEN Lookup(EmptyCache, dir, file_info, action, net)
    ELSE handle_filename(dir, file_info, action, net)

SameAsFaultless(ref) ==
    /\ inv' = WithFault(ref.inv, inv'.fault)
    /\ list' = ref.list

-----------------------------------------------------------------------------
(* C23 *)

\* Neither the file's guess nor the guess of either folder has a title.
NoTitleAnywhere ==
    /\ ~HasKey(inv.guess, "title")
    /\ \A i \in 1..2 : ~inv.folders[i].present \/ inv.folders[i].title = <<>>

\* C23: when no title can be inferred from the file name or from either of the
\* two folders above it, the run ends with a parse failure: no search request
\* with an empty title is sent and no save mutation.
C23_NoTitleIsParseFailure ==
    (Finished /\ NoTitleAnywhere) =>
        /\ inv.outcome = "parse_failure"
        /\ inv.searches = <<>>
        /\ inv.muts = <<>>

-----------------------------------------------------------------------------
(* C24 *)

\* C24: the expiry forces a new search: the fast path uses an entry only
\* within CACHE_REFRESH_RATE of the search the entry came from, so an update
\* through the fast path leaves the entry's ttl where that search put it and
\* fast-path updates alone do not keep the entry alive.
C24_ExpiryForcesSearch ==
    (Finished /\ inv.source = "fast" /\ inv.dir \in DOMAIN cache) =>
        cache[inv.dir].ttl = inv.stored.ttl

-----------------------------------------------------------------------------
(* C25 *)

\* C25: with every season on the list the first search result is media[1].
\* The absolute-episode resolver runs exactly when that result's episode count
\* is known and the file's episode is greater; otherwise the identity is the
\* first result with the file's episode as it is, whatever the other results.
C25_ResolverOnlyBeyondFirst ==
    (Finished /\ inv.resolved \in {"primary", "absolute"}) =>
        /\ inv.resolved = "absolute" <=>
             (media[1].episodes # None /\ inv.episode > media[1].episodes)
        /\ inv.resolved = "primary" =>
             /\ inv.ident.anime_id = media[1].id
             /\ inv.ident.total_episodes = media[1].episodes
             /\ inv.ident.file_progress = inv.episode

\* The last episode of the first result, which is the later cour.
C25_Witness ==
    /\ Finished
    /\ inv.resolved = "primary"
    /\ media[1].id = 2
    /\ media[1].episodes = 2
    /\ media[2].episodes = 1
    /\ inv.episode = 2
    /\ inv.ident.anime_id = 2

-----------------------------------------------------------------------------
(* C26 *)

\* A candidate that belongs to the TV franchise.
PassesFilter(c) ==
    /\ c.format = "TV"
    /\ IF c.duration = None THEN c.status = "RELEASING" ELSE c.duration > 21

\* The release date as a pair: the year, a missing one last, and the season of
\* the year, an unknown one last.
YearRank(c) == IF c.seasonYear = None THEN 100000 ELSE c.seasonYear

SeasonRank(c) ==
    IF c.season = "WINTER" THEN 1 ELSE IF c.season = "SPRING" THEN 2
    ELSE IF c.season = "SUMMER" THEN 3 ELSE IF c.season = "FALL" THEN 4 ELSE 5

NotAfter(a, b) ==
    \/ YearRank(a) < YearRank(b)
    \/ YearRank(a) = YearRank(b) /\ SeasonRank(a) <= SeasonRank(b)

\* C26: filter_valid_seasons returns exactly the candidates of format TV with a
\* duration above 21 minutes, or with no duration and status RELEASING, each
\* once, ordered by year (none last) and within a year WINTER, SPRING, SUMMER,
\* FALL, unknown; the resolver counts the episodes of these seasons only,
\* whether or not the first search result is among them.
C26_FilterAndOrder ==
    inv.pc = "filtered" =>
        /\ {inv.seasons[i] : i \in 1..Len(inv.seasons)}
             = {inv.candidates[i] : i \in {j \in 1..Len(inv.candidates) :
                                              PassesFilter(inv.candidates[j])}}
        /\ \A i \in 1..Len(inv.seasons) : \A j \in 1..Len(inv.seasons) :
             /\ inv.seasons[i] = inv.seasons[j] => i = j
             /\ i < j => NotAfter(inv.seasons[i], inv.seasons[j])
        /\ \A e \in DOMAIN inv.found :
             IF e <= 2 * Len(inv.seasons)
             THEN /\ inv.found[e].season_id = inv.seasons[(e + 1) \div 2].id
                  /\ inv.found[e].relative_episode = e - 2 * (((e + 1) \div 2) - 1)
             ELSE inv.found[e].season_id = None

\* The first result is a short; the two series behind it are answered newest
\* first and come out oldest first.
C26_Witness ==
    /\ inv.pc = "filtered"
    /\ Len(inv.candidates) = 3
    /\ inv.candidates[1].duration = 21
    /\ Len(inv.seasons) = 2
    /\ inv.seasons[1].id = 3
    /\ inv.seasons[2].id = 2
    /\ inv.seasons[2].seasonYear = None
    /\ inv.found[3].season_id = 2

-----------------------------------------------------------------------------
(* C27 *)

\* C27: find_season_and_episode returns the first season k whose episodes,
\* added to those of the seasons before it (12 for a season of unknown
\* length), reach the absolute episode e, with relative episode e minus the
\* episodes before k; resolving e against the same list again gives the same
\* answer.
C27_FirstSeasonReaching ==
    inv.pc = "resolved" =>
        /\ \A k \in 1..Len(inv.seasons) :
             ( /\ CountThrough(inv.seasons, k - 1) < inv.absolute_episode
               /\ inv.absolute_episode <= CountThrough(inv.seasons, k) ) =>
                 /\ inv.found.season_id = inv.seasons[k].id
                 /\ inv.found.episodes = inv.seasons[k].episodes
                 /\ inv.found.relative_episode
                      = inv.absolute_episode - CountThrough(inv.seasons, k - 1)
        /\ inv.found = find_season_and_episode(inv.seasons, inv.absolute_episode)

\* Two seasons of unknown length, taken as 12 and 12: episode 18 is episode 6
\* of the second.
C27_Witness ==
    /\ inv.pc = "resolved"
    /\ Len(inv.seasons) = 2
    /\ inv.seasons[1].episodes = None
    /\ inv.seasons[2].episodes = None
    /\ inv.absolute_episode = 18
    /\ inv.found.season_id = 2
    /\ inv.found.relative_episode = 6

-----------------------------------------------------------------------------
(* C28 *)

\* The title a name begins with: "A" is the file's, "B" the parent folder's,
\* "C" that of the folder above; <<>> when the name begins with none.
BaseTitle(name) ==
    IF name # <<>> /\ name[1] \in {"A", "B", "C"} THEN <<name[1]>> ELSE <<>>

NearestFolderTitle(folders) ==
    IF folders[1].present /\ folders[1].title # <<>> THEN folders[1].title
    ELSE IF folders[2].present /\ folders[2].title # <<>> THEN folders[2].title
    ELSE <<>>

\* C28: when the file's title is not trusted, the name's base title is the
\* title of the nearest of the two ancestor folders whose guess has a title;
\* the folder above is consulted only if the parent folder gave none, and
\* never replaces a title the parent folder gave.
C28_NearestFolderTitle ==
    ( /\ inv.pc = "parsed"
      /\ inv.file_info.raised = ""
      /\ ~title_in_filename(inv.guess) ) =>
        BaseTitle(inv.file_info.name) = NearestFolderTitle(inv.folders)

-----------------------------------------------------------------------------
(* C29 *)

\* The guess has a title and neither the episode nor the season is the first
\* field of its field order.
TitleAfterNumbers(guess) ==
    /\ guess.title # <<>>
    /\ guess.keys # <<>>
    /\ guess.keys[1] # "episode"
    /\ guess.keys[1] # "season"

\* C29: the name takes the file's title exactly when the guess has a title,
\* its episode field is not the first field (a missing episode field counts
\* as not first) and its season field is missing or not the first field;
\* otherwise the file's title is not used.
C29_TitleTrust ==
    (inv.pc = "parsed" /\ inv.file_info.raised = "") =>
        IF TitleAfterNumbers(inv.guess)
        THEN BaseTitle(inv.file_info.name) = inv.guess.title
        ELSE BaseTitle(inv.file_info.name) # <<"A">>

\* The file's guess has title "A" behind its episode, and the name takes the
\* parent folder's title "B".
C29_Witness ==
    /\ inv.pc = "parsed"
    /\ inv.file_info.raised = ""
    /\ inv.guess.title = <<"A">>
    /\ inv.guess.keys[1] = "episode"
    /\ BaseTitle(inv.file_info.name) = <<"B">>

-----------------------------------------------------------------------------
(* C30 *)

\* The base title, season, part and year the parse holds behind the folders.
Detected(guess, folders) ==
    NameSource(guess, folders,
               Parsed(<<>>, FileSeason(guess), StrOrEmpty(guess.part),
                      StrOrEmpty(guess.year), FALSE))

\* The numbers of an episode list before its last, each behind a space.
RECURSIVE Residual(_)
Residual(numbers) ==
    IF Len(numbers) < 2 THEN <<>>
    ELSE <<" ">> \o PyStr(Head(numbers)) \o Residual(Tail(numbers))

HasToken(name, token) == \E i \in 1..Len(name) : name[i] = token

\* C30: the name is the base title, then the numbers of the episode list
\* before its last, then " Season n" exactly when a season was detected and n
\* is above 1 or a part is present, then " Part p" exactly when a part is
\* present; season 1 without a part adds nothing.
C30_NameComposition ==
    (inv.pc = "parsed" /\ inv.file_info.raised = "") =>
        LET d == Detected(inv.guess, inv.folders)
            n == d.season
            named == d.season # <<>> /\ (PyInt(d.season) > 1 \/ d.part # <<>>)
            name == inv.file_info.name
            base == d.name \o Residual(inv.guess.episode)
        IN  /\ HasToken(name, " Season ") <=> named
            /\ HasToken(name, " Part ") <=> d.part # <<>>
            /\ name = base \o (IF named THEN <<" Season ">> \o n ELSE <<>>)
                           \o (IF d.part # <<>> THEN <<" Part ">> \o d.part ELSE <<>>)
            /\ (n = <<"1">> /\ d.part = <<>>) => name = base

\* A trusted title "A" in an episode list 1, 2 with season 1 and part 1: the
\* name is "A 1 Season 1 Part 1".
C30_Witness ==
    /\ inv.pc = "parsed"
    /\ inv.guess.season = <<1>>
    /\ inv.guess.part = 1
    /\ inv.guess.episode = <<1, 2>>
    /\ inv.file_info.name = <<"A", " ", "1", " Season ", "1", " Part ", "1">>

\* Season 1 without a part: the name is the title alone.
C30_SeasonOneAddsNothing ==
    /\ inv.pc = "parsed"
    /\ inv.guess.season = <<1>>
    /\ inv.guess.part = None
    /\ inv.guess.episode = <<2>>
    /\ inv.folders = <<NoFolder, NoFolder>>
    /\ inv.file_info.name = <<"A">>

-----------------------------------------------------------------------------
(* C31 *)

\* The numbers stand in the name right behind the base title.
BehindBase(name, base, numbers) ==
    /\ Len(name) >= Len(base) + Len(numbers)
    /\ \A i \in 1..Len(numbers) : name[Len(base) + i] = numbers[i]

ResidualInOrder ==
    /\ BehindBase(inv.file_info.name, Detected(inv.guess, inv.folders).name,
                  Residual(inv.guess.episode))
    /\ HasToken(inv.file_info.name, " ") <=> Len(inv.guess.episode) > 1

\* C31 as stated: the episode of an episode list is its last number, and the
\* numbers before it follow the base title in their order; a single number
\* adds nothing to the name.
C31_LastOfListAsStated ==
    (inv.pc = "parsed" /\ inv.file_info.raised = "" /\ inv.guess.episode # <<>>) =>
        /\ Len(inv.guess.episode) > 1 =>
             inv.file_info.episode = inv.guess.episode[Len(inv.guess.episode)]
        /\ ResidualInOrder

\* C31, amended: the episode of an episode list is its last number, or 1 when
\* that number is 0; the numbers before it follow the base title in their
\* order, and a single number adds nothing to the name.
C31_LastOfListIsEpisode ==
    (inv.pc = "parsed" /\ inv.file_info.raised = "" /\ inv.guess.episode # <<>>) =>
        LET last == inv.guess.episode[Len(inv.guess.episode)]
        IN  /\ Len(inv.guess.episode) > 1 =>
                 inv.file_info.episode = IF last = 0 THEN 1 ELSE last
            /\ ResidualInOrder

\* The list 3, 1, 2 behind a trusted title "A": episode 2, name "A 3 1".
C31_Witness ==
    /\ inv.pc = "parsed"
    /\ inv.guess.episode = <<3, 1, 2>>
    /\ inv.file_info.episode = 2
    /\ inv.file_info.name = <<"A", " ", "3", " ", "1">>

-----------------------------------------------------------------------------
(* C32 *)

\* The chain of the sources of the episode: the episode field, a numeric
\* episode title, the last number of a season list, 1.
ChainEpisode(guess) ==
    IF guess.episode # <<>> THEN guess.episode[Len(guess.episode)]
    ELSE IF guess.episode_title # <<>> /\ IsNumber(guess.episode_title)
         THEN PyInt(guess.episode_title)
    ELSE IF Len(guess.season) > 1 THEN guess.season[Len(guess.season)]
    ELSE 1

\* " Season n" in the name names the first number of a season list.
FirstOfListIsSeason ==
    Len(inv.guess.season) > 1 =>
        \E i \in 1..(Len(inv.file_info.name) - 1) :
            /\ inv.file_info.name[i] = " Season "
            /\ <<inv.file_info.name[i + 1]>> = PyStr(inv.guess.season[1])

\* C32 as stated: the episode is the episode field if there is one, else a
\* numeric episode title, else the last number of a season list, else 1; the
\* first number of a season list is the season; the episode is positive.
C32_FallbackChainAsStated ==
    (inv.pc = "parsed" /\ inv.file_info.raised = "") =>
        /\ inv.file_info.episode = ChainEpisode(inv.guess)
        /\ FirstOfListIsSeason
        /\ inv.file_info.episode >= 1

\* C32, amended: the episode is what the chain gives, with 1 in the place of
\* a detected 0; the first number of a season list is the season; the
\* episode is positive.
C32_EpisodeFallbackChain ==
    (inv.pc = "parsed" /\ inv.file_info.raised = "") =>
        /\ inv.file_info.episode
             = IF ChainEpisode(inv.guess) = 0 THEN 1 ELSE ChainEpisode(inv.guess)
        /\ FirstOfListIsSeason
        /\ inv.file_info.episode >= 1

\* No episode field and no episode title, season list 2, 3: episode 3 of
\* season 2.
C32_Witness ==
    /\ inv.pc = "parsed"
    /\ inv.guess.episode = <<>>
    /\ inv.guess.episode_title = <<>>
    /\ inv.guess.season = <<2, 3>>
    /\ inv.file_info.episode = 3
    /\ HasToken(inv.file_info.name, " Season ")

-----------------------------------------------------------------------------
(* C33 *)

\* C33: where the total of the resolved entry is known, every save mutation
\* of the run carries a progress from 0 to that total.
C33_ProgressWithinTotal ==
    (Finished /\ inv.ident.total_episodes # None) =>
        \A i \in 1..Len(inv.muts) :
            /\ 0 <= inv.muts[i].progress
            /\ inv.muts[i].progress <= inv.ident.total_episodes

-----------------------------------------------------------------------------
(* C34 *)

\* C34: a restart whose first request (REPEATING, progress 0) was not accepted
\* does not report success, and the cache is not written with the status
\* REPEATING it would report.
C34_RestartSuccessNeedsBoth ==
    (RestartCase /\ inv.responses # <<>> /\ inv.responses[1] = NoEntry) =>
        /\ inv.outcome # "ok"
        /\ inv.result.current_status # "REPEATING"
        /\ ~inv.wrote

-----------------------------------------------------------------------------
(* C35 *)

\* C35: with runs one after another the cache has one entry a folder at most;
\* a run on a file of one folder leaves the entry of every other folder as it
\* was, but for the entries whose ttl had passed when the run read the cache,
\* which are gone; and what the run writes for its folder, under another
\* title too, is the folder's one entry.
C35_WriteFrame ==
    [][ (inv.pc = "idle" /\ inv'.pc = "done") =>
          /\ DOMAIN cache' \subseteq CacheDirs
          /\ \A d \in CacheDirs \ {inv'.dir} :
               IF d \in DOMAIN cache /\ ~(cache[d].ttl < now)
               THEN d \in DOMAIN cache' /\ cache'[d] = cache[d]
               ELSE d \notin DOMAIN cache'
          /\ inv'.wrote =>
               /\ inv'.dir \in DOMAIN cache'
               /\ cache'[inv'.dir].guessed_name = inv'.name
               /\ cache'[inv'.dir].anime_id = inv'.result.anime_id ]_vars

\* A run on a file of "d2" has written its entry beside the one of "d1", which
\* is for another title.
C35_Witness ==
    /\ inv.pc = "done"
    /\ inv.wrote
    /\ inv.dir = "d2"
    /\ DOMAIN cache = {"d1", "d2"}
    /\ cache["d1"].guessed_name # cache["d2"].guessed_name

\* A run on a file of title "B" in "d1", whose entry was for "A" before.
C35_Replaced ==
    /\ inv.pc = "done"
    /\ inv.wrote
    /\ inv.dir = "d1"
    /\ calls = 2
    /\ inv.name = "B"
    /\ inv.hit = FALSE
    /\ DOMAIN cache = {"d1"}
    /\ cache["d1"].guessed_name = "B"

-----------------------------------------------------------------------------
(* C36 *)

\* C36: as long as no run has started while another held a document it had
\* not saved yet, the entry a successful run wrote for a folder is in the
\* cache, as written, until its ttl has passed.  (With such an overlap the
\* entry can be lost: C36_LostUpdate.)
C36_NoLossWithoutOverlap ==
    ~inv.overlapped =>
        \A d \in DOMAIN inv.written :
            \/ inv.written[d].ttl < now
            \/ d \in DOMAIN cache /\ cache[d] = inv.written[d]

\* Two overlapping runs on files of two folders have both succeeded, and the
\* unexpired entry one of them wrote is not in the cache the other saved.
C36_LostUpdate ==
    /\ inv.overlapped
    /\ \A p \in Procs : inv.procs[p].pc = "done"
    /\ DOMAIN inv.written = CacheDirs
    /\ \E d \in CacheDirs :
         /\ ~(inv.written[d].ttl < now)
         /\ d \notin DOMAIN cache

-----------------------------------------------------------------------------
(* C37 *)

\* The folder has an entry whose ttl has not passed, stored under this name.
Trusted(c, dir, name) ==
    dir \in DOMAIN c /\ ~(c[dir].ttl < now) /\ c[dir].guessed_name = name

\* C37: a launch on a file whose folder has a trusted entry with a catalog id
\* ends as a launch from that entry with no search and no mutation sent, the list
\* on the service and the entry, its ttl included, as they were; and in every
\* run the hit is decided by the cache as the run found it.
C37_CachedLaunchIsLocal ==
    [][ (inv.pc = "idle" /\ inv'.pc = "done") =>
          /\ inv'.hit <=> Trusted(cache, inv'.dir, inv'.name)
          /\ ( /\ inv'.action = "launch"
               /\ Trusted(cache, inv'.dir, inv'.name)
               /\ cache[inv'.dir].anime_id # None ) =>
                 /\ inv'.outcome = "launched"
                 /\ inv'.stored = cache[inv'.dir]
                 /\ inv'.searches = <<>>
                 /\ inv'.muts = <<>>
                 /\ ~inv'.wrote
                 /\ list' = list
                 /\ inv'.dir \in DOMAIN cache'
                 /\ cache'[inv'.dir] = cache[inv'.dir] ]_vars

\* A launch answered from an entry written one tick before: the entry still
\* ends at the time it was given then.
C37_Witness ==
    /\ Finished
    /\ inv.action = "launch"
    /\ inv.source = "cached_launch"
    /\ inv.searches = <<>>
    /\ inv.muts = <<>>
    /\ now = 1
    /\ inv.dir \in DOMAIN cache
    /\ cache[inv.dir] = inv.stored
    /\ cache[inv.dir].ttl = now

-----------------------------------------------------------------------------
(* C38 *)

NextEpisode == [name |-> inv.name, episode |-> inv.episode + 1]

\* C38: right after a successful update for episode e of a file named N in a
\* folder, the folder's entry is trusted for N from now until 24 hours later,
\* holds the id just updated and the progress just reported, and its offset
\* takes e to the relative episode just written; for episode e + 1 it gives
\* that relative episode plus one, on the fast path if this is within the
\* entry's total.
C38_ReadAfterWrite ==
    (Finished /\ inv.action = "update" /\ inv.outcome = "ok") =>
        /\ inv.dir \in DOMAIN cache
        /\ cache[inv.dir].guessed_name = inv.name
        /\ \A t \in now..(now + CACHE_REFRESH_RATE) : ~(cache[inv.dir].ttl < t)
        /\ cache[inv.dir].anime_id = inv.result.anime_id
        /\ cache[inv.dir].current_progress = inv.result.current_progress
        /\ ParseOffset(cache[inv.dir].relative_progress).ok
        /\ inv.episode - ParseOffset(cache[inv.dir].relative_progress).offset
             = inv.result.file_progress
        /\ FastPath(cache[inv.dir], NextEpisode).episode = inv.result.file_progress + 1
        /\ ( /\ cache[inv.dir].total_episodes # None
             /\ inv.result.file_progress + 1 <= cache[inv.dir].total_episodes ) =>
               FastPath(cache[inv.dir], NextEpisode).applies

\* The file after one that was resolved through absolute numbering: it is
\* answered from the entry written then, one relative episode further.
C38_Witness ==
    /\ Finished
    /\ inv.action = "update"
    /\ inv.source = "fast"
    /\ inv.outcome = "ok"
    /\ inv.episode # inv.ident.file_progress
    /\ inv.stored.relative_progress
         = FormatRelativeProgress(inv.episode - 1, inv.ident.file_progress - 1)
    /\ inv.stored.current_progress = inv.ident.file_progress - 1
    /\ inv.ident.anime_id = inv.stored.anime_id

-----------------------------------------------------------------------------
(* C39 *)

\* C39: in the legacy implementation a run calls handle_filename again at
\* most once, whether or not the deletion of the cached line took effect.
C39_AtMostOneRetry ==
    inv.pc \in {"retrying", "done"} => inv.depth <= 1

\* Where the deletion took effect, the call that follows is the last.
RetryAfterDeletionIsLast ==
    [][ (inv.pc = "retrying" /\ inv.deleted) => inv'.pc = "done" ]_vars

====
